---- MODULE Spec2Model ----
(***************************************************************************)
(* A model of the jsx-notation codec: the alias engine (alias.js), the     *)
(* notation writers (emitter.js, html-emitter.js), the HTML tokenizer      *)
(* (html-parser.js), the decoder (decoder.js) and the import lines of the  *)
(* file-level codec (file-encoder.js, file-decoder.js).                    *)
(*                                                                         *)
(* JavaScript strings are TLA+ strings; positions are 0-based as in the    *)
(* source.  A JavaScript Map is a sequence of <<key, value>> pairs in      *)
(* insertion order.                                                        *)
(***************************************************************************)
EXTENDS Integers, Sequences, FiniteSets, TLC

VARIABLES
  pc,           \* position of the running call
  html,         \* encodeHTML: the HTML source
  ast,          \* encode: the root of the parsed JSX
  importDecl,   \* compressImport: the import declaration
  request,      \* read_jsxn: the requested path and what the file system answers
  tool,         \* read_jsxn: the checks passed, whether the file was read, the result
  htmlPos,      \* parseHTML: pos
  doctype,      \* parseHTML: doctype, "" for null
  htmlNodes,    \* parseHTML: the nodes created so far, by id
  htmlRoots,    \* parseHTML: roots, as ids
  htmlStack,    \* parseHTML: stack of open elements, as ids
  frequencies,  \* analyze / analyzeHTML: [components, props, classes], Maps name -> count
  aliases,      \* generateAliases: [components, props, classes], Maps name -> alias
  jsxn,         \* the notation text handed to decode
  format,       \* decode's options.format
  reverseComp,  \* decode pass 1: Map alias -> name
  reverseProp,
  reverseClass,
  bodyLines,    \* decode pass 1: the body lines
  hasDoctype,   \* decode pass 1: the doctype flag
  i,            \* buildTree: index of the next body line
  stack,        \* buildTree: frames [node, sub, indent]
  roots,        \* buildTree: ids of the document roots
  nodes,        \* buildTree: the nodes built so far, by id
  output,       \* decode: the returned text
  raised        \* TRUE when the call threw

inputVars == <<html, ast, importDecl, request>>
htmlVars == <<htmlPos, doctype, htmlNodes, htmlRoots, htmlStack>>
aliasVars == <<frequencies, aliases>>
headerVars == <<reverseComp, reverseProp, reverseClass, bodyLines, hasDoctype>>
treeVars == <<i, stack, roots, nodes>>
vars == <<pc, html, ast, importDecl, request, tool, htmlPos, doctype, htmlNodes, htmlRoots, htmlStack,
          frequencies, aliases, jsxn, format, reverseComp, reverseProp,
          reverseClass, bodyLines, hasDoctype, i, stack, roots, nodes, output, raised>>

----------------------------------------------------------------------------
(* JavaScript string primitives *)

Min(a, b) == IF a < b THEN a ELSE b
Max(a, b) == IF a > b THEN a ELSE b

\* s[i]; "" stands for undefined
CharAt(s, k) == IF 0 <= k /\ k < Len(s) THEN SubSeq(s, k + 1, k + 1) ELSE ""

\* s.slice(a, b), negative arguments counted from the end
Slice(s, a, b) ==
  LET n == Len(s)
      from == IF a < 0 THEN Max(n + a, 0) ELSE Min(a, n)
      to == IF b < 0 THEN Max(n + b, 0) ELSE Min(b, n)
  IN IF from >= to THEN "" ELSE SubSeq(s, from + 1, to)

\* s.slice(a)
SliceFrom(s, a) == Slice(s, a, Len(s))

StartsWith(s, p) == Len(p) <= Len(s) /\ SubSeq(s, 1, Len(p)) = p
EndsWith(s, p) == Len(p) <= Len(s) /\ SubSeq(s, Len(s) - Len(p) + 1, Len(s)) = p

\* s.startsWith(p, k)
StartsWithAt(s, p, k) == k + Len(p) <= Len(s) /\ SubSeq(s, k + 1, k + Len(p)) = p

\* s.indexOf(p, k)
RECURSIVE IndexOfFrom(_, _, _)
IndexOfFrom(s, p, k) ==
  IF k + Len(p) > Len(s) THEN -1
  ELSE IF SubSeq(s, k + 1, k + Len(p)) = p THEN k
  ELSE IndexOfFrom(s, p, k + 1)

IndexOf(s, p) == IndexOfFrom(s, p, 0)
Includes(s, p) == IndexOf(s, p) # -1

LowerLetters == "abcdefghijklmnopqrstuvwxyz"
UpperLetters == "ABCDEFGHIJKLMNOPQRSTUVWXYZ"
Digits == "0123456789"

IsLower(c) == Len(c) = 1 /\ Includes(LowerLetters, c)
IsUpper(c) == Len(c) = 1 /\ Includes(UpperLetters, c)
IsDigit(c) == Len(c) = 1 /\ Includes(Digits, c)
IsLetter(c) == IsLower(c) \/ IsUpper(c)
\* the regular expression class \s, for the characters the model uses
IsSpace(c) == c \in {" ", "\n", "\t"}

ToLowerChar(c) == IF IsUpper(c) THEN CharAt(LowerLetters, IndexOf(UpperLetters, c)) ELSE c
ToUpperChar(c) == IF IsLower(c) THEN CharAt(UpperLetters, IndexOf(LowerLetters, c)) ELSE c

RECURSIVE ToLowerCase(_)
ToLowerCase(s) == IF s = "" THEN "" ELSE ToLowerChar(CharAt(s, 0)) \o ToLowerCase(SliceFrom(s, 1))

RECURSIVE TrimStart(_)
TrimStart(s) == IF s # "" /\ IsSpace(CharAt(s, 0)) THEN TrimStart(SliceFrom(s, 1)) ELSE s

RECURSIVE TrimEnd(_)
TrimEnd(s) == IF s # "" /\ IsSpace(CharAt(s, Len(s) - 1)) THEN TrimEnd(Slice(s, 0, Len(s) - 1)) ELSE s

Trim(s) == TrimEnd(TrimStart(s))

\* s.split(sep) for a non-empty separator
RECURSIVE Split(_, _)
Split(s, sep) ==
  LET k == IndexOf(s, sep)
  IN IF k = -1 THEN <<s>> ELSE <<Slice(s, 0, k)>> \o Split(SliceFrom(s, k + Len(sep)), sep)

\* parts.join(sep)
RECURSIVE Join(_, _)
Join(parts, sep) ==
  IF parts = <<>> THEN ""
  ELSE IF Len(parts) = 1 THEN parts[1]
  ELSE parts[1] \o sep \o Join(Tail(parts), sep)

\* ' '.repeat(n)
RECURSIVE Repeat(_, _)
Repeat(s, n) == IF n <= 0 THEN "" ELSE s \o Repeat(s, n - 1)

\* array.filter(pred) for a set of kept values
RECURSIVE SelectIn(_, _)
SelectIn(seq, keep) ==
  IF seq = <<>> THEN <<>>
  ELSE (IF Head(seq) \in keep THEN <<Head(seq)>> ELSE <<>>) \o SelectIn(Tail(seq), keep)

Range(seq) == {seq[k] : k \in 1..Len(seq)}

----------------------------------------------------------------------------
(* Maps: sequences of <<key, value>> in insertion order *)

MapKeys(m) == {m[k][1] : k \in 1..Len(m)}
MapHas(m, key) == key \in MapKeys(m)
MapGet(m, key) == m[CHOOSE k \in 1..Len(m) : m[k][1] = key][2]

\* map.set(key, value): an existing key keeps its place
MapSet(m, key, value) ==
  IF MapHas(m, key)
  THEN [k \in 1..Len(m) |-> IF m[k][1] = key THEN <<key, value>> ELSE m[k]]
  ELSE Append(m, <<key, value>>)

\* map.get(key) ?? dflt
MapGetOr(m, key, dflt) == IF MapHas(m, key) THEN MapGet(m, key) ELSE dflt

\* map.get(key) || dflt : an empty string is falsy
MapGetTruthy(m, key, dflt) == IF MapHas(m, key) /\ MapGet(m, key) # "" THEN MapGet(m, key) ELSE dflt

----------------------------------------------------------------------------
(* alias.js: the alias engine *)

\* entries sorted by descending weight; Array.prototype.sort is stable.
\* Each entry is <<name, count, weight>>.
RECURSIVE InsertByWeight(_, _)
InsertByWeight(sorted, e) ==
  IF sorted = <<>> THEN <<e>>
  ELSE IF Head(sorted)[3] >= e[3] THEN <<Head(sorted)>> \o InsertByWeight(Tail(sorted), e)
  ELSE <<e>> \o sorted

RECURSIVE SortDescending(_)
SortDescending(entries) ==
  IF entries = <<>> THEN <<>>
  ELSE InsertByWeight(SortDescending(SubSeq(entries, 1, Len(entries) - 1)), entries[Len(entries)])

\* the onX branch of findUniqueAlias: letters of the event name from the end
RECURSIVE EventLetter(_, _, _)
EventLetter(eventPart, usedAliases, k) ==
  IF k < 0 THEN ""
  ELSE IF ToLowerChar(CharAt(eventPart, k)) \notin usedAliases THEN ToLowerChar(CharAt(eventPart, k))
  ELSE EventLetter(eventPart, usedAliases, k - 1)

\* the onX branch of findUniqueAlias: two-letter combinations from the start
RECURSIVE EventPair(_, _, _)
EventPair(eventPart, usedAliases, k) ==
  IF k >= Len(eventPart) - 1 THEN ""
  ELSE IF ToLowerCase(Slice(eventPart, k, k + 2)) \notin usedAliases THEN ToLowerCase(Slice(eventPart, k, k + 2))
  ELSE EventPair(eventPart, usedAliases, k + 1)

\* "Add letters progressively"; falls out of the loop with the whole name
RECURSIVE AddLetters(_, _, _, _, _)
AddLetters(name, usedAliases, isComponent, alias, k) ==
  IF k >= Len(name) THEN alias
  ELSE LET next == alias \o (IF isComponent THEN CharAt(name, k) ELSE ToLowerChar(CharAt(name, k)))
       IN IF next \notin usedAliases THEN next
          ELSE AddLetters(name, usedAliases, isComponent, next, k + 1)

findUniqueAlias(name, usedAliases, isComponent) ==
  LET isEvent == ~isComponent /\ StartsWith(name, "on") /\ Len(name) > 2
      eventPart == SliceFrom(name, 2)
      letter == IF isEvent THEN EventLetter(eventPart, usedAliases, Len(eventPart) - 1) ELSE ""
      pair == IF isEvent /\ letter = "" THEN EventPair(eventPart, usedAliases, 0) ELSE ""
      firstChar == IF isComponent THEN ToUpperChar(CharAt(name, 0)) ELSE ToLowerChar(CharAt(name, 0))
  IN IF letter # "" THEN letter
     ELSE IF pair # "" THEN pair
     ELSE IF firstChar \notin usedAliases THEN firstChar
     ELSE AddLetters(name, usedAliases, isComponent, firstChar, 1)

findPropAlias(name, usedAliases) == findUniqueAlias(name, usedAliases, FALSE)

\* name.split(/[-:]/)
RECURSIVE SplitSegments(_)
SplitSegments(name) ==
  LET d == IndexOf(name, "-")
      c == IndexOf(name, ":")
      k == IF d = -1 THEN c ELSE IF c = -1 THEN d ELSE Min(d, c)
  IN IF k = -1 THEN <<name>> ELSE <<Slice(name, 0, k)>> \o SplitSegments(SliceFrom(name, k + 1))

\* segments.map(s => s[0] ?? '').join('')
RECURSIVE Initials(_)
Initials(segments) ==
  IF segments = <<>> THEN "" ELSE CharAt(Head(segments), 0) \o Initials(Tail(segments))

\* Strategy 4 of findClassAlias: progressively longer abbreviations
RECURSIVE LongerPrefix(_, _, _, _)
LongerPrefix(name, stripped, usedAliases, len) ==
  IF len >= Len(name) THEN name
  ELSE IF Slice(stripped, 0, len) \notin usedAliases /\ Len(Slice(stripped, 0, len)) < Len(name)
       THEN Slice(stripped, 0, len)
  ELSE LongerPrefix(name, stripped, usedAliases, len + 1)

findClassAliasPrefixOnly(name, usedAliases) ==
  LongerPrefix(name, Join(SplitSegments(name), ""), usedAliases, 2)
findClassAlias(name, usedAliases) ==
  LET segments == SplitSegments(name)
      s1 == Initials(segments)
      lastSeg == segments[Len(segments)]
      s2 == Initials(segments) \o CharAt(lastSeg, Len(lastSeg) - 1)
      s3 == Slice(segments[1], 0, 2) \o Initials(Tail(segments))
  IN IF s1 # "" /\ s1 \notin usedAliases /\ Len(s1) < Len(name) THEN s1
     ELSE IF Len(lastSeg) > 1 /\ s2 \notin usedAliases /\ Len(s2) < Len(name) THEN s2
     ELSE IF Len(segments[1]) >= 2 /\ s3 \notin usedAliases /\ Len(s3) < Len(name) THEN s3
     ELSE LongerPrefix(name, Join(SplitSegments(name), ""), usedAliases, 2)

\* the candidate filters
IsComponentCandidate(name, count) == Len(name) > 1
IsPropCandidateLoose(name, count) == count >= 1 /\ Len(name) >= 4
IsPropCandidate(name, count) == count >= 2 /\ Len(name) > 4
IsClassCandidate(name, count) == count >= 2 /\ Len(name) > 3

\* the loops over the sorted candidates; each yields the Map name -> alias
RECURSIVE AssignComponentAliases(_, _)
AssignComponentAliases(candidates, done) ==
  IF candidates = <<>> THEN done
  ELSE LET name == Head(candidates)[1]
           alias == findUniqueAlias(name, {done[k][2] : k \in 1..Len(done)}, TRUE)
       IN AssignComponentAliases(Tail(candidates), MapSet(done, name, alias))

RECURSIVE AssignPropAliases(_, _)
AssignPropAliases(candidates, done) ==
  IF candidates = <<>> THEN done
  ELSE LET name == Head(candidates)[1]
           alias == findPropAlias(name, {done[k][2] : k \in 1..Len(done)})
       IN AssignPropAliases(Tail(candidates), MapSet(done, name, alias))

RECURSIVE AssignClassAliases(_, _)
AssignClassAliases(candidates, done) ==
  IF candidates = <<>> THEN done
  ELSE LET name == Head(candidates)[1]
           alias == findClassAlias(name, {done[k][2] : k \in 1..Len(done)})
       IN AssignClassAliases(Tail(candidates),
            IF Len(alias) < Len(name) THEN MapSet(done, name, alias) ELSE done)

\* entries of a frequency Map as <<name, count, weight>>
RECURSIVE WithCountWeight(_)
WithCountWeight(freq) ==
  IF freq = <<>> THEN <<>>
  ELSE <<<<Head(freq)[1], Head(freq)[2], Head(freq)[2]>>>> \o WithCountWeight(Tail(freq))

RECURSIVE WithSavingsWeight(_)
WithSavingsWeight(freq) ==
  IF freq = <<>> THEN <<>>
  ELSE <<<<Head(freq)[1], Head(freq)[2], Head(freq)[2] * Len(Head(freq)[1])>>>>
       \o WithSavingsWeight(Tail(freq))

generateComponentAliases(freq) ==
  AssignComponentAliases(
    SortDescending(SelectIn(WithCountWeight(freq),
      {e \in Range(WithCountWeight(freq)) : IsComponentCandidate(e[1], e[2])})), <<>>)

generatePropAliases(freq) ==
  AssignPropAliases(
    SortDescending(SelectIn(WithCountWeight(freq),
      {e \in Range(WithCountWeight(freq)) : IsPropCandidate(e[1], e[2])})), <<>>)

generateClassAliases(freq) ==
  AssignClassAliases(
    SortDescending(SelectIn(WithSavingsWeight(freq),
      {e \in Range(WithSavingsWeight(freq)) : IsClassCandidate(e[1], e[2])})), <<>>)

generateAliases(freq) ==
  [components |-> generateComponentAliases(freq.components),
   props |-> generatePropAliases(freq.props),
   classes |-> generateClassAliases(freq.classes)]

\* entries.map(([name, alias]) => `${name}=${alias}`).join(', ')
RECURSIVE HeaderEntries(_)
HeaderEntries(m) ==
  IF m = <<>> THEN <<>> ELSE <<Head(m)[1] \o "=" \o Head(m)[2]>> \o HeaderEntries(Tail(m))

formatHeaders(al) ==
  Join((IF Len(al.components) > 0 THEN <<"@C " \o Join(HeaderEntries(al.components), ", ")>> ELSE <<>>)
       \o (IF Len(al.props) > 0 THEN <<"@P " \o Join(HeaderEntries(al.props), ", ")>> ELSE <<>>)
       \o (IF Len(al.classes) > 0 THEN <<"@S " \o Join(HeaderEntries(al.classes), ", ")>> ELSE <<>>),
       "\n")

----------------------------------------------------------------------------
(* decoder.js, pass 1: alias headers, body lines, doctype *)

RECURSIVE ParseAliasEntries(_, _)
ParseAliasEntriesUntilBad(entries, map) ==
  IF entries = <<>> \/ IndexOf(Trim(Head(entries)), "=") = -1 THEN map
  ELSE ParseAliasEntries(Tail(entries),
         MapSet(map, Trim(SliceFrom(Trim(Head(entries)), IndexOf(Trim(Head(entries)), "=") + 1)),
                Trim(Slice(Trim(Head(entries)), 0, IndexOf(Trim(Head(entries)), "=")))))
ParseAliasEntries(entries, map) ==
  IF entries = <<>> THEN map
  ELSE LET trimmed == Trim(Head(entries))
           eq == IndexOf(trimmed, "=")
       IN IF trimmed = "" \/ eq = -1 THEN ParseAliasEntries(Tail(entries), map)
          ELSE ParseAliasEntries(Tail(entries),
                 MapSet(map, Trim(SliceFrom(trimmed, eq + 1)), Trim(Slice(trimmed, 0, eq))))

parseAliasHeader(str, map) == ParseAliasEntries(Split(str, ","), map)

IsDoctypeLine(line) == StartsWith(Trim(line), "!DOCTYPE") \/ StartsWith(Trim(line), "!doctype")

\* the loop of pass 1 over the lines; h is [comp, prop, class, body, doctype]
RECURSIVE ScanLines(_, _)
ScanLines(lines, h) ==
  IF lines = <<>> THEN h
  ELSE LET line == Head(lines)
       IN ScanLines(Tail(lines),
            IF StartsWith(line, "@C ") THEN [h EXCEPT !.comp = parseAliasHeader(SliceFrom(line, 3), @)]
            ELSE IF StartsWith(line, "@P ") THEN [h EXCEPT !.prop = parseAliasHeader(SliceFrom(line, 3), @)]
            ELSE IF StartsWith(line, "@S ") THEN [h EXCEPT !.class = parseAliasHeader(SliceFrom(line, 3), @)]
            ELSE IF IsDoctypeLine(line) THEN [h EXCEPT !.doctype = TRUE]
            ELSE [h EXCEPT !.body = Append(@, line)])

RECURSIVE DropLeadingBlank(_)
DropLeadingBlank(lines) ==
  IF lines # <<>> /\ Trim(Head(lines)) = "" THEN DropLeadingBlank(Tail(lines)) ELSE lines

RECURSIVE DropTrailingBlank(_)
DropTrailingBlank(lines) ==
  IF lines # <<>> /\ Trim(lines[Len(lines)]) = ""
  THEN DropTrailingBlank(SubSeq(lines, 1, Len(lines) - 1)) ELSE lines

Pass1(text) ==
  LET h == ScanLines(Split(text, "\n"),
             [comp |-> <<>>, prop |-> <<>>, class |-> <<>>, body |-> <<>>, doctype |-> FALSE])
  IN [h EXCEPT !.body = DropTrailingBlank(DropLeadingBlank(@))]

----------------------------------------------------------------------------
(* decoder.js: utilities *)

\* index of the } matching the { at openPos, or the last index of str
RECURSIVE BalancedScan(_, _, _)
BalancedScan(str, k, depth) ==
  IF k >= Len(str) THEN Len(str) - 1
  ELSE IF CharAt(str, k) = "{" THEN BalancedScan(str, k + 1, depth + 1)
  ELSE IF CharAt(str, k) = "}"
       THEN (IF depth - 1 = 0 THEN k ELSE BalancedScan(str, k + 1, depth - 1))
  ELSE BalancedScan(str, k + 1, depth)

findBalancedBrace(str, openPos) == BalancedScan(str, openPos, 0)

RECURSIVE UnbracedScan(_, _, _, _)
UnbracedScan(str, char, k, depth) ==
  IF k >= Len(str) THEN -1
  ELSE IF CharAt(str, k) \in {"{", "(", "["} THEN UnbracedScan(str, char, k + 1, depth + 1)
  ELSE IF CharAt(str, k) \in {"}", ")", "]"} THEN UnbracedScan(str, char, k + 1, depth - 1)
  ELSE IF CharAt(str, k) = char /\ depth = 0 THEN k
  ELSE UnbracedScan(str, char, k + 1, depth)

findUnbraced(str, char) == UnbracedScan(str, char, 0, 0)

\* collection.split('.').pop()
LastDotted(collection) ==
  IF Includes(collection, ".") THEN Split(collection, ".")[Len(Split(collection, "."))] ELSE collection

singularizeDropS(collection) ==
  IF EndsWith(LastDotted(collection), "s") THEN Slice(LastDotted(collection), 0, -1) ELSE "item"
singularize(collection) ==
  LET name == LastDotted(collection)
  IN IF EndsWith(name, "ies") THEN Slice(name, 0, -3) \o "y"
     ELSE IF EndsWith(name, "ses") \/ EndsWith(name, "xes") \/ EndsWith(name, "zes") THEN Slice(name, 0, -2)
     ELSE IF EndsWith(name, "ren") /\ Len(name) > 4 THEN Slice(name, 0, -3)
     ELSE IF EndsWith(name, "s") /\ ~EndsWith(name, "ss") THEN Slice(name, 0, -1)
     ELSE "item"

----------------------------------------------------------------------------
(* decoder.js: props parsing *)

STRING_PROPS ==
  {"type", "placeholder", "href", "src", "alt", "name", "role",
   "target", "rel", "method", "action", "htmlFor", "autoComplete",
   "d", "viewBox", "transform", "points", "fill", "stroke", "xmlns",
   "preserveAspectRatio", "stroke-width", "stroke-linecap", "stroke-linejoin",
   "stroke-dasharray", "font-family", "font-size", "font-weight", "text-anchor",
   "opacity", "rx", "ry", "cx", "cy", "r", "x", "y", "x1", "y1", "x2", "y2",
   "width", "height", "dx", "dy", "offset", "stop-color", "stop-opacity"}

\* regex.test(val) for a character class
HasCharIn(val, class) == \E k \in 0..(Len(val) - 1) : CharAt(val, k) \in class

\* /[a-z][A-Z]/.test(val)
HasCamelHump(val) == \E k \in 0..(Len(val) - 2) : IsLower(CharAt(val, k)) /\ IsUpper(CharAt(val, k + 1))

\* /^[a-zA-Z0-9_]+$/.test(val)
IsWord(val) ==
  val # "" /\ \A k \in 0..(Len(val) - 1) :
    IsLetter(CharAt(val, k)) \/ IsDigit(CharAt(val, k)) \/ CharAt(val, k) = "_"

\* the heuristic without its camelCase test
isSimpleStringValueAnyWord(val) ==
  IF HasCharIn(val, {"{", "}", "(", ")", "=", ">", "!", "&", "|", "?", "+", "[", "]"}) THEN FALSE
  ELSE IF Includes(val, " ") THEN TRUE
  ELSE IF StartsWith(val, "#") THEN TRUE
  ELSE IF HasCharIn(val, {".", "-", "/"}) THEN TRUE
  ELSE IF IsDigit(CharAt(val, 0)) THEN TRUE
  ELSE IsWord(val)
isSimpleStringValue(val) ==
  IF HasCharIn(val, {"{", "}", "(", ")", "=", ">", "!", "&", "|", "?", "+", "[", "]"}) THEN FALSE
  ELSE IF Includes(val, " ") THEN TRUE
  ELSE IF StartsWith(val, "#") THEN TRUE
  ELSE IF HasCharIn(val, {".", "-", "/"}) THEN TRUE
  ELSE IF IsDigit(CharAt(val, 0)) THEN TRUE
  ELSE IF val \in {"currentColor", "evenOdd", "nonZero", "sRGB", "linearRGB"} THEN TRUE
  ELSE IF IsWord(val) /\ ~HasCamelHump(val) THEN TRUE
  ELSE FALSE

\* the scan of splitProps; st is [parts, depth, inQuote, start]
RECURSIVE SplitPropsScan(_, _, _)
SplitPropsScan(block, k, st) ==
  IF k >= Len(block) THEN Append(st.parts, SliceFrom(block, st.start))
  ELSE LET ch == CharAt(block, k)
       IN SplitPropsScan(block, k + 1,
            IF ch = "\"" /\ st.depth = 0 THEN [st EXCEPT !.inQuote = ~@]
            ELSE IF st.inQuote THEN st
            ELSE IF ch \in {"{", "(", "["} THEN [st EXCEPT !.depth = @ + 1]
            ELSE IF ch \in {"}", ")", "]"} THEN [st EXCEPT !.depth = @ - 1]
            ELSE IF ch = "," /\ st.depth = 0
                 THEN [st EXCEPT !.parts = Append(@, Slice(block, st.start, k)), !.start = k + 1]
            ELSE st)

splitProps(block) ==
  SplitPropsScan(block, 0, [parts |-> <<>>, depth |-> 0, inQuote |-> FALSE, start |-> 0])

\* /^[a-zA-Z_$]/.test(t)
StartsLikeIdentifier(t) == IsLetter(CharAt(t, 0)) \/ CharAt(t, 0) \in {"_", "$"}

looksLikeProps(block) ==
  StartsWith(block, "...")
  \/ \E k \in 1..Len(splitProps(block)) :
       LET t == Trim(splitProps(block)[k])
       IN t # "" /\ (StartsWith(t, "...") \/ StartsLikeIdentifier(t))

\* whether a key:value prop is a string prop or an expression prop
IsStringProp(name, val) == name \in STRING_PROPS /\ isSimpleStringValue(val)

\* one part of a props block; <<>> when the part is blank
ParseProp(part, ctx) ==
  LET t == Trim(part)
      colonIdx == IndexOf(t, ":")
      key == Slice(t, 0, colonIdx)
      raw == SliceFrom(t, colonIdx + 1)
      val == IF StartsWith(raw, "\"") /\ EndsWith(raw, "\"") THEN Slice(raw, 1, -1) ELSE raw
      name == MapGetTruthy(ctx.reverseProp, key, key)
  IN IF t = "" THEN <<>>
     ELSE IF StartsWith(t, "...") THEN <<[type |-> "spread", value |-> SliceFrom(t, 3)]>>
     ELSE IF colonIdx = -1 THEN <<[type |-> "boolean", name |-> MapGetTruthy(ctx.reverseProp, t, t)]>>
     ELSE IF IsStringProp(name, val) THEN <<[type |-> "string", name |-> name, value |-> val]>>
     ELSE <<[type |-> "expression", name |-> name, value |-> val]>>

RECURSIVE ParseProps(_, _)
ParseProps(parts, ctx) ==
  IF parts = <<>> THEN <<>> ELSE ParseProp(Head(parts), ctx) \o ParseProps(Tail(parts), ctx)

parsePropsBlock(block, ctx) == ParseProps(splitProps(block), ctx)

----------------------------------------------------------------------------
(* decoder.js: line classification and parsing *)

Null == [type |-> "null"]

\* node.children = node.children || []
EnsureChildrenSkipped(node) == node
EnsureChildren(node) ==
  IF "children" \in DOMAIN node THEN node
  ELSE [f \in DOMAIN node \cup {"children"} |-> IF f = "children" THEN <<>> ELSE node[f]]

\* node.children = []
ResetChildren(node) ==
  [f \in DOMAIN node \cup {"children"} |-> IF f = "children" THEN <<>> ELSE node[f]]

\* the tag-name loop of parseElement: the position where the tag ends
RECURSIVE ReadTag(_, _)
ReadTag(trimmed, pos) ==
  IF pos >= Len(trimmed) \/ CharAt(trimmed, pos) \in {"#", " ", "{"} THEN pos
  ELSE IF CharAt(trimmed, pos) = "."
       THEN (IF pos + 1 < Len(trimmed) /\ IsUpper(CharAt(trimmed, pos + 1))
             THEN ReadTag(trimmed, pos + 1) ELSE pos)
  ELSE ReadTag(trimmed, pos + 1)

\* the end of a literal #id or .class token
RECURSIVE ReadToken(_, _)
ReadToken(trimmed, pos) ==
  IF pos >= Len(trimmed) \/ CharAt(trimmed, pos) \in {".", "#", " ", "{"} THEN pos
  ELSE ReadToken(trimmed, pos + 1)

\* the selector loop of parseElement; sel is [pos, id, classes]
RECURSIVE ParseSelectors(_, _, _)
ParseSelectors(trimmed, sel, ctx) ==
  IF ~(sel.pos < Len(trimmed) /\ CharAt(trimmed, sel.pos) \in {".", "#"}) THEN sel
  ELSE LET isId == CharAt(trimmed, sel.pos) = "#"
           p == sel.pos + 1
           dynamic == CharAt(trimmed, p) = "{"
           end == IF dynamic THEN findBalancedBrace(trimmed, p) ELSE ReadToken(trimmed, p)
           token == IF dynamic
                    THEN [type |-> "expression", value |-> Slice(trimmed, p + 1, end)]
                    ELSE IF isId THEN [type |-> "string", value |-> Slice(trimmed, p, end)]
                    ELSE [type |-> "string",
                          value |-> MapGetTruthy(ctx.reverseClass, Slice(trimmed, p, end), Slice(trimmed, p, end))]
           next == IF dynamic THEN end + 1 ELSE end
       IN ParseSelectors(trimmed,
            IF isId THEN [sel EXCEPT !.pos = next, !.id = token]
            ELSE [sel EXCEPT !.pos = next, !.classes = Append(@, token)],
            ctx)

RECURSIVE SkipSpaces(_, _)
SkipSpaces(trimmed, pos) ==
  IF pos < Len(trimmed) /\ CharAt(trimmed, pos) = " " THEN SkipSpaces(trimmed, pos + 1) ELSE pos

\* the trailing inline child of parseElement: "text" or (expr)
InlineChildOf(rest) ==
  IF rest = "" THEN Null
  ELSE IF StartsWith(rest, "\"") /\ EndsWith(rest, "\"") THEN [type |-> "text", value |-> Slice(rest, 1, -1)]
  ELSE IF StartsWith(rest, "(") /\ EndsWith(rest, ")") THEN [type |-> "expression", value |-> Slice(rest, 1, -1)]
  ELSE Null

parseElement(trimmed, ctx) ==
  LET implicit == CharAt(trimmed, 0) \in {".", "#"}
      tagEnd == IF implicit THEN 0 ELSE ReadTag(trimmed, 0)
      rawTag == IF implicit THEN "div" ELSE Slice(trimmed, 0, tagEnd)
      tag == MapGetTruthy(ctx.reverseComp, rawTag, rawTag)
      isMemberExpr == Includes(tag, ".")
      sel == IF isMemberExpr THEN [pos |-> tagEnd, id |-> Null, classes |-> <<>>]
             ELSE ParseSelectors(trimmed, [pos |-> tagEnd, id |-> Null, classes |-> <<>>], ctx)
      p1 == SkipSpaces(trimmed, sel.pos)
      hasBlock == p1 < Len(trimmed) /\ CharAt(trimmed, p1) = "{"
      end == findBalancedBrace(trimmed, p1)
      block == Slice(trimmed, p1 + 1, end)
      isProps == hasBlock /\ looksLikeProps(block)
      p2 == IF isProps THEN SkipSpaces(trimmed, end + 1) ELSE p1
  IN [type |-> "element",
      tag |-> tag,
      id |-> sel.id,
      classes |-> sel.classes,
      props |-> IF isProps THEN parsePropsBlock(block, ctx) ELSE <<>>,
      inlineChild |-> InlineChildOf(SliceFrom(trimmed, p2)),
      children |-> <<>>]

RECURSIVE classifyAndParse(_, _)

parseTernary(trimmed, ctx) ==
  LET afterQ == SliceFrom(trimmed, 1)
      gtIdx == IndexOf(afterQ, ">")
      rest == Trim(SliceFrom(afterQ, gtIdx + 1))
      pipeIdx == findUnbraced(rest, "|")
  IN [type |-> "ternary",
      condition |-> Trim(Slice(afterQ, 0, gtIdx)),
      consequent |-> EnsureChildren(classifyAndParse(Trim(Slice(rest, 0, pipeIdx)), ctx)),
      alternate |-> EnsureChildren(classifyAndParse(Trim(SliceFrom(rest, pipeIdx + 1)), ctx))]

parseConditional(trimmed, ctx) ==
  LET afterQ == SliceFrom(trimmed, 1)
      gtIdx == IndexOf(afterQ, ">")
  IN [type |-> "conditional",
      condition |-> Trim(Slice(afterQ, 0, gtIdx)),
      child |-> EnsureChildren(classifyAndParse(Trim(SliceFrom(afterQ, gtIdx + 1)), ctx))]

parseMap(trimmed, ctx) ==
  LET afterStar == SliceFrom(trimmed, 1)
      gtIdx == IndexOf(afterStar, ">")
      collection == Trim(Slice(afterStar, 0, gtIdx))
  IN [type |-> "map",
      collection |-> collection,
      param |-> singularize(collection),
      child |-> EnsureChildren(classifyAndParse(Trim(SliceFrom(afterStar, gtIdx + 1)), ctx))]

classifyAndParse(trimmed, ctx) ==
  IF trimmed = "_" THEN [type |-> "fragment"]
  ELSE IF StartsWith(trimmed, "?") /\ Includes(trimmed, ">") /\ Includes(trimmed, "|")
       THEN parseTernary(trimmed, ctx)
  ELSE IF StartsWith(trimmed, "?") /\ Includes(trimmed, ">") THEN parseConditional(trimmed, ctx)
  ELSE IF StartsWith(trimmed, "*") /\ Includes(trimmed, ">") THEN parseMap(trimmed, ctx)
  ELSE IF StartsWith(trimmed, "\"") /\ EndsWith(trimmed, "\"")
       THEN [type |-> "text", value |-> Slice(trimmed, 1, -1)]
  ELSE IF StartsWith(trimmed, "(") /\ EndsWith(trimmed, ")")
       THEN [type |-> "expression", value |-> Slice(trimmed, 1, -1)]
  ELSE parseElement(trimmed, ctx)

----------------------------------------------------------------------------
(* decoder.js: JSX and HTML emission.  ns is the node table of buildTree;  *)
(* a node's children are ids into it.                                      *)

Kids(node) == IF "children" \in DOMAIN node THEN node.children ELSE <<>>

\* classes.map(c => c.value).join(' ')
RECURSIVE ClassValues(_)
ClassValues(classes) ==
  IF classes = <<>> THEN <<>> ELSE <<Head(classes).value>> \o ClassValues(Tail(classes))

\* classes.map(c => c.type === 'string' ? `"${c.value}"` : c.value)
RECURSIVE ClassParts(_)
ClassParts(classes) ==
  IF classes = <<>> THEN <<>>
  ELSE <<IF Head(classes).type = "string" THEN "\"" \o Head(classes).value \o "\"" ELSE Head(classes).value>>
       \o ClassParts(Tail(classes))

JsxIdPart(id) ==
  IF id.type = "null" THEN ""
  ELSE IF id.type = "string" THEN " id=\"" \o id.value \o "\""
  ELSE " id={" \o id.value \o "}"

JsxClassPart(classes) ==
  LET hasExpr == \E k \in 1..Len(classes) : classes[k].type = "expression"
  IN IF Len(classes) = 0 THEN ""
     ELSE IF hasExpr /\ Len(classes) = 1 THEN " className={" \o classes[1].value \o "}"
     ELSE IF hasExpr THEN " className={" \o Join(ClassParts(classes), " + \" \" + ") \o "}"
     ELSE " className=\"" \o Join(ClassValues(classes), " ") \o "\""

JsxPropPart(prop) ==
  IF prop.type = "spread" THEN " {..." \o prop.value \o "}"
  ELSE IF prop.type = "boolean" THEN " " \o prop.name
  ELSE IF prop.type = "string" THEN " " \o prop.name \o "=\"" \o prop.value \o "\""
  ELSE " " \o prop.name \o "={" \o prop.value \o "}"

RECURSIVE JsxPropParts(_)
JsxPropParts(props) ==
  IF props = <<>> THEN "" ELSE JsxPropPart(Head(props)) \o JsxPropParts(Tail(props))

\* `${ind}  ${cl.trimStart()}` for each line
RECURSIVE Reindent(_, _)
Reindent(lines, ind) ==
  IF lines = <<>> THEN <<>> ELSE <<ind \o "  " \o TrimStart(Head(lines))>> \o Reindent(Tail(lines), ind)

RECURSIVE emitJSX(_, _, _)
RECURSIVE EmitJSXChildren(_, _, _)
EmitJSXChildren(ns, ids, level) ==
  IF ids = <<>> THEN <<>> ELSE emitJSX(ns, ns[Head(ids)], level) \o EmitJSXChildren(ns, Tail(ids), level)

emitFragment(ns, node, level) ==
  <<Repeat("  ", level) \o "<>">> \o EmitJSXChildren(ns, Kids(node), level + 1)
  \o <<Repeat("  ", level) \o "</>">>

emitElement(ns, node, level) ==
  LET ind == Repeat("  ", level)
      openTag == node.tag \o JsxIdPart(node.id) \o JsxClassPart(node.classes) \o JsxPropParts(node.props)
      inline == IF node.inlineChild.type = "null" THEN ""
                ELSE IF node.inlineChild.type = "text" THEN node.inlineChild.value
                ELSE "{" \o node.inlineChild.value \o "}"
  IN IF Len(Kids(node)) = 0 /\ node.inlineChild.type = "null" THEN <<ind \o "<" \o openTag \o " />">>
     ELSE IF Len(Kids(node)) = 0 THEN <<ind \o "<" \o openTag \o ">" \o inline \o "</" \o node.tag \o ">">>
     ELSE <<ind \o "<" \o openTag \o ">">>
          \o (IF node.inlineChild.type = "null" THEN <<>> ELSE <<Repeat("  ", level + 1) \o inline>>)
          \o EmitJSXChildren(ns, Kids(node), level + 1)
          \o <<ind \o "</" \o node.tag \o ">">>

emitConditional(ns, node, level) ==
  LET ind == Repeat("  ", level)
      childLines == emitJSX(ns, node.child, 0)
  IN IF Len(childLines) = 1 THEN <<ind \o "{" \o node.condition \o " && (" \o Trim(childLines[1]) \o ")}">>
     ELSE <<ind \o "{" \o node.condition \o " && (">> \o Reindent(childLines, ind) \o <<ind \o ")}">>

emitTernaryJSX(ns, node, level) ==
  LET ind == Repeat("  ", level)
      consLines == emitJSX(ns, node.consequent, 0)
      altLines == emitJSX(ns, node.alternate, 0)
  IN IF Len(consLines) = 1 /\ Len(altLines) = 1
     THEN <<ind \o "{" \o node.condition \o " ? (" \o Trim(consLines[1]) \o ") : (" \o Trim(altLines[1]) \o ")}">>
     ELSE <<ind \o "{" \o node.condition \o " ? (">> \o Reindent(consLines, ind)
          \o <<ind \o ") : (">> \o Reindent(altLines, ind) \o <<ind \o ")}">>

emitMapJSX(ns, node, level) ==
  LET ind == Repeat("  ", level)
      childLines == emitJSX(ns, node.child, 0)
      head == ind \o "{" \o node.collection \o ".map(" \o node.param \o " => ("
  IN IF Len(childLines) = 1 THEN <<head \o Trim(childLines[1]) \o "))}">>
     ELSE <<head>> \o Reindent(childLines, ind) \o <<ind \o "))}">>

emitJSX(ns, node, level) ==
  CASE node.type = "fragment" -> emitFragment(ns, node, level)
    [] node.type = "element" -> emitElement(ns, node, level)
    [] node.type = "text" -> <<Repeat("  ", level) \o node.value>>
    [] node.type = "expression" -> <<Repeat("  ", level) \o "{" \o node.value \o "}">>
    [] node.type = "conditional" -> emitConditional(ns, node, level)
    [] node.type = "ternary" -> emitTernaryJSX(ns, node, level)
    [] node.type = "map" -> emitMapJSX(ns, node, level)
    [] OTHER -> <<>>

VOID_ELEMENTS ==
  {"area", "base", "br", "col", "embed", "hr", "img", "input",
   "link", "meta", "param", "source", "track", "wbr"}

SVG_SELF_CLOSING ==
  {"circle", "ellipse", "line", "path", "polygon", "polyline", "rect",
   "stop", "use", "image", "animate", "animateMotion", "animateTransform", "set"}

HtmlPropPart(prop) ==
  IF prop.type = "spread" THEN ""
  ELSE IF prop.type = "boolean" THEN " " \o prop.name
  ELSE " " \o prop.name \o "=\"" \o prop.value \o "\""

RECURSIVE HtmlPropParts(_)
HtmlPropParts(props) ==
  IF props = <<>> THEN "" ELSE HtmlPropPart(Head(props)) \o HtmlPropParts(Tail(props))

\* the opening tag of emitHTMLElement without its brackets
HtmlOpenTag(node) ==
  node.tag
  \o (IF node.id.type = "null" THEN "" ELSE " id=\"" \o node.id.value \o "\"")
  \o (IF Len(node.classes) = 0 THEN "" ELSE " class=\"" \o Join(ClassValues(node.classes), " ") \o "\"")
  \o HtmlPropParts(node.props)

RECURSIVE emitHTMLNode(_, _, _)
RECURSIVE EmitHTMLChildren(_, _, _)
EmitHTMLChildren(ns, ids, level) ==
  IF ids = <<>> THEN <<>> ELSE emitHTMLNode(ns, ns[Head(ids)], level) \o EmitHTMLChildren(ns, Tail(ids), level)

\* the element rendering without its void branch
emitHTMLElementAlwaysClosed(ns, node, level) ==
  LET ind == Repeat("  ", level)
      openTag == HtmlOpenTag(node)
      hasInline == node.inlineChild.type # "null"
  IN IF Len(Kids(node)) = 0 /\ ~hasInline
     THEN (IF node.tag \in SVG_SELF_CLOSING THEN <<ind \o "<" \o openTag \o " />">>
           ELSE <<ind \o "<" \o openTag \o "></" \o node.tag \o ">">>)
     ELSE IF Len(Kids(node)) = 0
          THEN <<ind \o "<" \o openTag \o ">" \o node.inlineChild.value \o "</" \o node.tag \o ">">>
     ELSE <<ind \o "<" \o openTag \o ">">>
          \o (IF hasInline THEN <<Repeat("  ", level + 1) \o node.inlineChild.value>> ELSE <<>>)
          \o EmitHTMLChildren(ns, Kids(node), level + 1)
          \o <<ind \o "</" \o node.tag \o ">">>
emitHTMLElement(ns, node, level) ==
  LET ind == Repeat("  ", level)
      openTag == HtmlOpenTag(node)
      hasInline == node.inlineChild.type # "null"
  IN IF node.tag \in VOID_ELEMENTS THEN <<ind \o "<" \o openTag \o ">">>
     ELSE IF Len(Kids(node)) = 0 /\ ~hasInline
          THEN (IF node.tag \in SVG_SELF_CLOSING THEN <<ind \o "<" \o openTag \o " />">>
                ELSE <<ind \o "<" \o openTag \o "></" \o node.tag \o ">">>)
     ELSE IF Len(Kids(node)) = 0
          THEN <<ind \o "<" \o openTag \o ">" \o node.inlineChild.value \o "</" \o node.tag \o ">">>
     ELSE <<ind \o "<" \o openTag \o ">">>
          \o (IF hasInline THEN <<Repeat("  ", level + 1) \o node.inlineChild.value>> ELSE <<>>)
          \o EmitHTMLChildren(ns, Kids(node), level + 1)
          \o <<ind \o "</" \o node.tag \o ">">>

\* the node rendering with a bare comment for ?, ?| and *
emitHTMLNodeCommentOnly(ns, node, level) ==
  LET ind == Repeat("  ", level)
  IN CASE node.type = "fragment" -> EmitHTMLChildren(ns, Kids(node), level)
       [] node.type = "element" -> emitHTMLElement(ns, node, level)
       [] node.type = "text" -> <<ind \o node.value>>
       [] node.type = "expression" -> <<ind \o "<!-- JSXN expression: " \o node.value \o " -->">>
       [] node.type = "conditional" -> <<ind \o "<!-- JSXN conditional: " \o node.condition \o " -->">>
       [] node.type = "ternary" -> <<ind \o "<!-- JSXN ternary: " \o node.condition \o " -->">>
       [] node.type = "map" -> <<ind \o "<!-- JSXN map: " \o node.collection \o " -->">>
       [] OTHER -> <<>>
emitHTMLNode(ns, node, level) ==
  LET ind == Repeat("  ", level)
  IN CASE node.type = "fragment" -> EmitHTMLChildren(ns, Kids(node), level)
       [] node.type = "element" -> emitHTMLElement(ns, node, level)
       [] node.type = "text" -> <<ind \o node.value>>
       [] node.type = "expression" -> <<ind \o "<!-- JSXN expression: " \o node.value \o " -->">>
       [] node.type = "conditional" ->
            <<ind \o "<!-- JSXN conditional: " \o node.condition \o " -->">> \o emitHTMLNode(ns, node.child, level)
       [] node.type = "ternary" ->
            <<ind \o "<!-- JSXN ternary: " \o node.condition \o " -->">> \o emitHTMLNode(ns, node.consequent, level)
       [] node.type = "map" ->
            <<ind \o "<!-- JSXN map: " \o node.collection \o " -->">> \o emitHTMLNode(ns, node.child, level)
       [] OTHER -> <<>>

\* TypeError: a fragment or element whose children are undefined is iterated
RECURSIVE EmitThrows(_, _, _)
EmitThrows(ns, node, fmt) ==
  CASE node.type \in {"fragment", "element"} ->
         IF node.type = "element" /\ fmt = "html" /\ node.tag \in VOID_ELEMENTS THEN FALSE
         ELSE "children" \notin DOMAIN node
              \/ \E k \in 1..Len(Kids(node)) : EmitThrows(ns, ns[Kids(node)[k]], fmt)
    [] node.type \in {"conditional", "map"} -> EmitThrows(ns, node.child, fmt)
    [] node.type = "ternary" ->
         EmitThrows(ns, node.consequent, fmt) \/ (fmt = "jsx" /\ EmitThrows(ns, node.alternate, fmt))
    [] OTHER -> FALSE

----------------------------------------------------------------------------
(* decoder.js: buildTree, one body line per step *)

\* the node a stack frame stands for: a line's node, or the inline child of one
FrameNode(ns, frame) == IF frame.sub = "child" THEN ns[frame.node].child ELSE ns[frame.node]

\* "Pop stack to find parent"
RECURSIVE PopStack(_, _)
PopStackDeeperOnly(st, lineIndent) ==
  IF Len(st) > 0 /\ st[Len(st)].indent > lineIndent
  THEN PopStack(SubSeq(st, 1, Len(st) - 1), lineIndent) ELSE st
PopStack(st, lineIndent) ==
  IF Len(st) > 0 /\ st[Len(st)].indent >= lineIndent
  THEN PopStack(SubSeq(st, 1, Len(st) - 1), lineIndent) ELSE st

\* stack[stack.length - 1].node.children.push(node)
PushChild(ns, frame, id) ==
  IF frame.sub = "child"
  THEN [ns EXCEPT ![frame.node].child.children = Append(@, id)]
  ELSE [ns EXCEPT ![frame.node].children = Append(@, id)]

\* the frames pushed for a new line: the node, and for ? and * the inline child
\* one unit deeper when it is an element
InlineChildUnit == 1
NewFramesSameIndent(node, id, lineIndent) ==
  <<[node |-> id, sub |-> "self", indent |-> lineIndent]>>
  \o (IF node.type \in {"conditional", "map"} /\ node.child.type = "element"
      THEN <<[node |-> id, sub |-> "child", indent |-> lineIndent]>>
      ELSE <<>>)
NewFrames(node, id, lineIndent) ==
  <<[node |-> id, sub |-> "self", indent |-> lineIndent]>>
  \o (IF node.type \in {"conditional", "map"} /\ node.child.type = "element"
      THEN <<[node |-> id, sub |-> "child", indent |-> lineIndent + InlineChildUnit]>>
      ELSE <<>>)

Ctx == [reverseComp |-> reverseComp, reverseProp |-> reverseProp, reverseClass |-> reverseClass]

----------------------------------------------------------------------------
(* The operations *)

\* generateAliases(frequencies)
GenerateAliases ==
  /\ pc = "analyzed"
  /\ aliases' = generateAliases(frequencies)
  /\ pc' = "aliased"
  /\ UNCHANGED <<inputVars, tool, htmlVars, frequencies, jsxn, format, headerVars, treeVars, output, raised>>

\* formatHeaders(aliases), handed to decode as it stands
FormatHeaders ==
  /\ pc = "aliased"
  /\ jsxn' = formatHeaders(aliases)
  /\ pc' = "decode"
  /\ UNCHANGED <<inputVars, tool, htmlVars, aliasVars, format, headerVars, treeVars, output, raised>>

\* decode, up to the call of buildTree
DecodeHeaders ==
  /\ pc = "decode"
  /\ LET h == Pass1(jsxn)
     IN IF Trim(jsxn) = ""
        THEN /\ output' = ""
             /\ pc' = "done"
             /\ UNCHANGED headerVars
        ELSE /\ reverseComp' = h.comp
             /\ reverseProp' = h.prop
             /\ reverseClass' = h.class
             /\ bodyLines' = h.body
             /\ hasDoctype' = h.doctype
             /\ IF h.body = <<>>
                THEN /\ output' = (IF h.doctype /\ format = "html" THEN "<!DOCTYPE html>" ELSE "")
                     /\ pc' = "done"
                ELSE /\ pc' = "buildTree"
                     /\ UNCHANGED output
  /\ UNCHANGED <<inputVars, tool, htmlVars, aliasVars, jsxn, format, treeVars, raised>>

\* one iteration of buildTree's loop
BuildTreeLine ==
  /\ pc = "buildTree"
  /\ i < Len(bodyLines)
  /\ LET rawLine == bodyLines[i + 1]
         trimmed == TrimStart(rawLine)
         lineIndent == Len(rawLine) - Len(trimmed)
         node == ResetChildren(classifyAndParse(trimmed, Ctx))
         id == Len(nodes) + 1
         popped == PopStack(stack, lineIndent)
     IN IF trimmed = ""
        THEN UNCHANGED <<stack, roots, nodes, raised, pc>>
        ELSE IF Len(popped) > 0 /\ "children" \notin DOMAIN FrameNode(nodes, popped[Len(popped)])
        THEN /\ raised' = TRUE
             /\ pc' = "done"
             /\ UNCHANGED <<stack, roots, nodes>>
        ELSE /\ nodes' = (IF Len(popped) = 0 THEN Append(nodes, node)
                          ELSE Append(PushChild(nodes, popped[Len(popped)], id), node))
             /\ roots' = (IF Len(popped) = 0 THEN Append(roots, id) ELSE roots)
             /\ stack' = popped \o NewFrames(node, id, lineIndent)
             /\ UNCHANGED <<raised, pc>>
  /\ i' = i + 1
  /\ UNCHANGED <<inputVars, tool, htmlVars, aliasVars, jsxn, format, headerVars, output>>

\* the lines pushed for the roots
RECURSIVE EmitRoots(_, _, _)
EmitRoots(ns, ids, fmt) ==
  IF ids = <<>> THEN <<>>
  ELSE (IF fmt = "html" THEN emitHTMLNode(ns, ns[Head(ids)], 0) ELSE emitJSX(ns, ns[Head(ids)], 0))
       \o EmitRoots(ns, Tail(ids), fmt)

\* decode, pass 3
DecodeEmit ==
  /\ pc = "buildTree"
  /\ i = Len(bodyLines)
  /\ IF \E k \in 1..Len(roots) : EmitThrows(nodes, nodes[roots[k]], format)
     THEN /\ raised' = TRUE
          /\ UNCHANGED output
     ELSE /\ output' = Join((IF format = "html" /\ hasDoctype THEN <<"<!DOCTYPE html>">> ELSE <<>>)
                            \o EmitRoots(nodes, roots, format), "\n")
          /\ UNCHANGED raised
  /\ pc' = "done"
  /\ UNCHANGED <<inputVars, tool, htmlVars, aliasVars, jsxn, format, headerVars, treeVars>>

----------------------------------------------------------------------------
(* The alias engine on a frequency table: generateAliases, formatHeaders,  *)
(* and the headers read back by decode.                                    *)

MaxNames == 3
MaxCount == 2

ComponentPool == {"Ax", "Abc", "Ab", "B", "Bx", "Card"}
PropPool == {"onClick", "onClose", "title", "type", "value", "t"}
ClassPool == {"items-center", "bg-gray-50", "p-6", "in-cell", "mt-1", "mb-1"}

\* the Maps name -> count with at most MaxNames names of the pool
Tables(pool) ==
  {t \in UNION {[1..n -> pool \X (1..MaxCount)] : n \in 0..MaxNames} :
     \A a, b \in 1..Len(t) : a # b => t[a][1] # t[b][1]}

NoHeaders ==
  /\ reverseComp = <<>> /\ reverseProp = <<>> /\ reverseClass = <<>>
  /\ bodyLines = <<>> /\ hasDoctype = FALSE

NoTree == i = 0 /\ stack = <<>> /\ roots = <<>> /\ nodes = <<>>

NoHtml ==
  /\ html = "" /\ htmlPos = 0 /\ doctype = ""
  /\ htmlNodes = <<>> /\ htmlRoots = <<>> /\ htmlStack = <<>>

NoJsx == ast = [type |-> "null"]

NoImport == importDecl = [type |-> "null"]

NoRequest ==
  /\ request = [type |-> "null"]
  /\ tool = [checks |-> <<>>, read |-> FALSE, encoded |-> FALSE, result |-> [type |-> "null"]]

NoAliases ==
  /\ frequencies = [components |-> <<>>, props |-> <<>>, classes |-> <<>>]
  /\ aliases = [components |-> <<>>, props |-> <<>>, classes |-> <<>>]

InitAlias ==
  /\ pc = "analyzed"
  /\ \E ns \in {"components", "props", "classes"} :
       \E t \in Tables(CASE ns = "components" -> ComponentPool
                         [] ns = "props" -> PropPool
                         [] OTHER -> ClassPool) :
         frequencies = [components |-> IF ns = "components" THEN t ELSE <<>>,
                        props |-> IF ns = "props" THEN t ELSE <<>>,
                        classes |-> IF ns = "classes" THEN t ELSE <<>>]
  /\ aliases = [components |-> <<>>, props |-> <<>>, classes |-> <<>>]
  /\ jsxn = ""
  /\ format = "jsx"
  /\ NoHtml /\ NoJsx /\ NoImport
  /\ NoHeaders /\ NoRequest
  /\ NoTree
  /\ output = ""
  /\ raised = FALSE

NextAlias == GenerateAliases \/ FormatHeaders \/ DecodeHeaders

SpecAlias == InitAlias /\ [][NextAlias]_vars

\* C2: within each namespace no alias code is assigned to two names, and once
\* the headers are written and parsed back, the alias of every aliased name
\* resolves to that name.
AliasesInjective(m) == \A a, b \in 1..Len(m) : a # b => m[a][2] # m[b][2]
ResolvesBack(m, reverse) == \A a \in 1..Len(m) : MapGetOr(reverse, m[a][2], "") = m[a][1]
C2_AliasBijective ==
  /\ pc \in {"aliased", "decode", "done"} =>
       /\ AliasesInjective(aliases.components)
       /\ AliasesInjective(aliases.props)
       /\ AliasesInjective(aliases.classes)
  /\ pc = "done" =>
       /\ ResolvesBack(aliases.components, reverseComp)
       /\ ResolvesBack(aliases.props, reverseProp)
       /\ ResolvesBack(aliases.classes, reverseClass)

\* C6: a prop of length <= 4 or frequency < 2 is never aliased; a class of
\* length <= 3 or frequency 1 is never aliased; every class alias is strictly
\* shorter than its class.
C6_AliasThresholds ==
  pc \in {"aliased", "decode", "done"} =>
    /\ \A a \in 1..Len(frequencies.props) :
         LET name == frequencies.props[a][1]
             count == frequencies.props[a][2]
         IN (Len(name) <= 4 \/ count < 2) => ~MapHas(aliases.props, name)
    /\ \A a \in 1..Len(frequencies.classes) :
         LET name == frequencies.classes[a][1]
             count == frequencies.classes[a][2]
         IN (Len(name) <= 3 \/ count = 1) => ~MapHas(aliases.classes, name)
    /\ \A a \in 1..Len(aliases.classes) :
         Len(aliases.classes[a][2]) < Len(aliases.classes[a][1])

\* a table with a short prop, a rare prop and a single-use class was aliased
C6_Witness ==
  /\ pc = "aliased"
  /\ \/ /\ Len(aliases.props) > 0
        /\ \E a \in 1..Len(frequencies.props) : Len(frequencies.props[a][1]) <= 4
        /\ \E a \in 1..Len(frequencies.props) :
             Len(frequencies.props[a][1]) > 4 /\ frequencies.props[a][2] < 2
     \/ /\ Len(aliases.classes) > 0
        /\ \E a \in 1..Len(frequencies.classes) :
             Len(frequencies.classes[a][1]) > 3 /\ frequencies.classes[a][2] = 1
        /\ \E a \in 1..Len(frequencies.classes) : Len(frequencies.classes[a][1]) <= 3

\* the names counted by analyze that the writer leaves as they are
Unaliased(freq, m) ==
  {freq[a][1] : a \in {b \in 1..Len(freq) : ~MapHas(m, freq[b][1])}}

AliasCodes(m) == {m[a][2] : a \in 1..Len(m)}

\* C18: in each namespace, no alias code equals a name of the document that
\* is written unaliased.
C18_NoAliasShadows ==
  pc \in {"aliased", "decode", "done"} =>
    /\ AliasCodes(aliases.components) \cap Unaliased(frequencies.components, aliases.components) = {}
    /\ AliasCodes(aliases.props) \cap Unaliased(frequencies.props, aliases.props) = {}
    /\ AliasCodes(aliases.classes) \cap Unaliased(frequencies.classes, aliases.classes) = {}

\* the candidate codes of a class in the order they are tried: the initials,
\* the initials and the last character, two characters of the first segment
\* and the initials of the rest, then the prefixes of the name without its
\* delimiters; guarded, (b) needs a last segment and (c) a first segment of
\* more than one character
LastSegment(name) == SplitSegments(name)[Len(SplitSegments(name))]
StrategyA(name) == Initials(SplitSegments(name))
StrategyB(name) == Initials(SplitSegments(name)) \o CharAt(LastSegment(name), Len(LastSegment(name)) - 1)
StrategyC(name) == Slice(SplitSegments(name)[1], 0, 2) \o Initials(Tail(SplitSegments(name)))
StrategyD(name) == [k \in 1..(Len(name) - 2) |-> Slice(Join(SplitSegments(name), ""), 0, k + 1)]

ClassCandidates(name, guarded) ==
  <<StrategyA(name)>>
  \o (IF guarded /\ Len(LastSegment(name)) <= 1 THEN <<>> ELSE <<StrategyB(name)>>)
  \o (IF guarded /\ Len(SplitSegments(name)[1]) < 2 THEN <<>> ELSE <<StrategyC(name)>>)
  \o StrategyD(name)

\* the first candidate that is unused and strictly shorter than the name,
\* the name itself when there is none
Free(cands, used, name) == {k \in 1..Len(cands) : cands[k] # "" /\ cands[k] \notin used /\ Len(cands[k]) < Len(name)}
FirstFree(cands, used, name) ==
  IF Free(cands, used, name) = {} THEN name
  ELSE cands[CHOOSE k \in Free(cands, used, name) : \A h \in Free(cands, used, name) : k <= h]

\* the codes given before the k-th entry of the class aliases
UsedBefore(k) == {aliases.classes[h][2] : h \in 1..(k - 1)}

\* every class alias is the first free candidate of its class, in the order
\* the aliases were given
SelectedInOrder(guarded) ==
  \A k \in 1..Len(aliases.classes) :
    aliases.classes[k][2]
      = FirstFree(ClassCandidates(aliases.classes[k][1], guarded), UsedBefore(k), aliases.classes[k][1])

\* the alias of a class that is the first to get one
FirstAlias(name) ==
  IF Len(aliases.classes) >= 1 /\ aliases.classes[1][1] = name THEN aliases.classes[1][2] ELSE ""

----------------------------------------------------------------------------
(* decode on notation text: Spec *)

MaxLines == 2
MaxIndent == 2

\* lines of every kind of the grammar, for documents of several lines
StructurePool ==
  {"_", "div", ".foo", "\"t\"", "(e)", "?c > a", "?c > _", "*xs > li.x", "?c > A | B", "",
   "br", "path"}

\* lines the grammar does not foresee
MalformedPool ==
  {"a {x:1", "a (e", "a \"t", "?c > | B", "?c > A |", "?c > {a|b}", "?c >", "*xs >", " {x}", "#",
   ".{a", "#{", "a {}", "a {1}", "\"", "(", "?c > ?d > _", "*>", "?>|", "a {...p, b, c:\"x, y\"}"}

PropKeys == {"src", "title", "s"}
PropValues ==
  {"logo.png", "Logo", "logoUrl", "Enter email", "#fff", "12", "currentColor", "fn()", "a=>b",
   "fooBar2", "x2", "", "\"a, b\"", "a:b", "foo_bar", "-", "$x"}
PropLines == {"img {" \o k \o ":" \o v \o "}" : k \in PropKeys, v \in PropValues}

DecodeHeaderPool == {"", "@C Card=C\n@P src=s, oops, title=t\n@S foo=f\n"}

\* k spaces and a line of the pool, for every k up to MaxIndent
IndentedLines == {Repeat(" ", k) \o l : k \in 0..MaxIndent, l \in StructurePool}

\* documents whose header lines stand after or between the body lines
HeaderDocuments ==
  {"C {s:logo.png}\n@C Card=C\n@P src=s, oops, title=t",
   "C.f\n@S foo=f\n C {t:x}\n@C Card=C",
   "@C Card=C\nC\n@P oops\n C {t:x}"}

\* collections for every rule of the iteration parameter
CollectionPool ==
  {"categories", "data.items", "boxes", "classes", "quizzes", "children", "ren", "glass",
   "data", "a.b.users", "s", "ies", "props.children", "items.filter(x)"}

\* props blocks with commas inside brackets, inside quotes, and after a
\* quoted bracket character
PropBlocks ==
  {"x:1, y:2", "k:f(a, b), t:x", "t:\"a, b\", s:1", "k:[1, 2], t:{a:1, b:2}",
   "k:f(\")\"), t:x", "k:f(\"a, b\"), t:x", "...p, b"}

Documents ==
  {Join(d, "\n") : d \in UNION {[1..n -> IndentedLines] : n \in 1..MaxLines}}
  \cup {h \o l : h \in DecodeHeaderPool, l \in MalformedPool \cup PropLines}
  \cup {"a {" \o b \o "}" : b \in PropBlocks}
  \cup {"*" \o c \o " > li" : c \in CollectionPool}
  \cup HeaderDocuments

Init ==
  /\ pc = "decode"
  /\ jsxn \in Documents
  /\ format \in {"jsx", "html"}
  /\ NoHtml /\ NoJsx /\ NoImport
  /\ NoAliases
  /\ NoHeaders /\ NoRequest
  /\ NoTree
  /\ output = ""
  /\ raised = FALSE

Next == DecodeHeaders \/ BuildTreeLine \/ DecodeEmit

Spec == Init /\ [][Next]_vars

\* the props of the elements that stand on a line of their own
LineProps ==
  UNION {Range(nodes[id].props) : id \in {n \in 1..Len(nodes) : nodes[n].type = "element"}}

KeyValueProps == {p \in LineProps : p.type \in {"string", "expression"}}

\* C4: after a ?cond > X or *coll > X line at indentation k, the deeper lines
\* that follow become descendants of X and never direct children of the
\* marker node, whose own children are not rendered.
C4_ContinuationUnderInlineChild ==
  \A id \in 1..Len(nodes) :
    nodes[id].type \in {"conditional", "map"} => nodes[id].children = <<>>

\* the number of non-blank lines among the first n
RECURSIVE NonBlank(_, _)
NonBlank(lines, n) ==
  IF n = 0 THEN 0
  ELSE NonBlank(lines, n - 1) + (IF TrimStart(lines[n]) = "" THEN 0 ELSE 1)

NodeTypes == {"element", "text", "expression", "fragment", "conditional", "ternary", "map"}

OperatorPunctuation == {"{", "}", "(", ")", "=", ">", "!", "&", "|", "?", "+", "[", "]"}
PathSeparators == {".", "-", "/"}
CamelCaseKeywords == {"currentColor", "evenOdd", "nonZero", "sRGB", "linearRGB"}
DigitChars == {"0", "1", "2", "3", "4", "5", "6", "7", "8", "9"}
Chars(v) == {SubSeq(v, k, k) : k \in 1..Len(v)}
SingleWord(v) == v # "" /\ \A c \in Chars(v) : IsLetter(c) \/ c \in DigitChars \/ c = "_"
CamelCase(v) == \E k \in 1..(Len(v) - 1) : IsLower(SubSeq(v, k, k)) /\ IsUpper(SubSeq(v, k + 1, k + 1))

\* the shape the sentence describes: any digit run counts
ShapeAsStated(v) ==
  /\ Chars(v) \cap OperatorPunctuation = {}
  /\ \/ " " \in Chars(v)
     \/ (v # "" /\ SubSeq(v, 1, 1) = "#")
     \/ Chars(v) \cap DigitChars # {}
     \/ Chars(v) \cap PathSeparators # {}
     \/ v \in CamelCaseKeywords
     \/ (SingleWord(v) /\ ~CamelCase(v))

\* the shape with a leading digit in place of a digit run
ShapeWithLeadingDigit(v) ==
  /\ Chars(v) \cap OperatorPunctuation = {}
  /\ \/ " " \in Chars(v)
     \/ (v # "" /\ SubSeq(v, 1, 1) \in {"#"} \cup DigitChars)
     \/ Chars(v) \cap PathSeparators # {}
     \/ v \in CamelCaseKeywords
     \/ (SingleWord(v) /\ ~CamelCase(v))

\* C7 as stated: a key:value prop is a string exactly when the shape of its
\* value says so, for every prop name.
C7_ShapeAlone ==
  \A p \in KeyValueProps : (p.type = "string") <=> ShapeAsStated(p.value)

\* C7: a key:value prop is a string exactly when its resolved name is one of
\* the string-like prop names and its value (enclosing quotes stripped) has the
\* string shape, a leading digit counting and not an embedded one; otherwise
\* it is an expression.
C7_NameAndShape ==
  \A p \in KeyValueProps :
    (p.type = "string") <=> (p.name \in STRING_PROPS /\ ShapeWithLeadingDigit(p.value))

\* a prop written under its alias, resolved to a string-like name, classified
\* as a string, next to the header that declared the alias
C7_Witness ==
  /\ pc = "done"
  /\ MapHas(reverseProp, "s")
  /\ \E p \in KeyValueProps : p.type = "string" /\ p.name = "src" /\ p.value = "logo.png"

\* the elements that stand on a line of their own
ElementIds == {id \in 1..Len(nodes) : nodes[id].type = "element"}

Childless(node) == Kids(node) = <<>> /\ node.inlineChild.type = "null"

\* the closing-tag policy on the lines rendered for one element
ClosingPolicy(node, lines) ==
  IF node.tag \in VOID_ELEMENTS
  THEN /\ Len(lines) = 1
       /\ StartsWith(lines[1], "<" \o node.tag) /\ EndsWith(lines[1], ">")
       /\ ~EndsWith(lines[1], "/>") /\ ~Includes(lines[1], "</")
  ELSE IF Childless(node) /\ node.tag \in SVG_SELF_CLOSING
  THEN /\ Len(lines) = 1
       /\ StartsWith(lines[1], "<" \o node.tag) /\ EndsWith(lines[1], " />")
       /\ ~Includes(lines[1], "</")
  ELSE Childless(node) =>
         /\ Len(lines) = 1
         /\ StartsWith(lines[1], "<" \o node.tag) /\ EndsWith(lines[1], "></" \o node.tag \o ">")

\* C11: rendered as HTML, a void element is <tag ...> with no closing tag and
\* no />, a childless element of the SVG self-closing set is <tag ... />, and
\* every other childless element is <tag ...></tag>; a document of one root
\* element is exactly that rendering.
C11_ClosingTagPolicy ==
  (pc = "done" /\ format = "html" /\ ~raised) =>
    \A id \in ElementIds :
      /\ ClosingPolicy(nodes[id], emitHTMLElement(nodes, nodes[id], 0))
      /\ (roots = <<id>> /\ ~hasDoctype) =>
           output = Join(emitHTMLElement(nodes, nodes[id], 0), "\n")

\* a void element with a line indented under it, rendered as HTML
C11_Witness ==
  /\ pc = "done" /\ format = "html"
  /\ jsxn = "br\n path"
  /\ output = "<br>"

\* the comment that stands for a node without an HTML form
DegradedComment(node) ==
  "<!-- JSXN " \o node.type \o ": "
  \o (IF node.type = "expression" THEN node.value
      ELSE IF node.type = "map" THEN node.collection ELSE node.condition)
  \o " -->"

\* what follows the comment: the child, the consequent, or nothing
DegradedRest(ns, node) ==
  IF node.type = "expression" THEN <<>>
  ELSE IF node.type = "ternary" THEN emitHTMLNode(ns, node.consequent, 0)
  ELSE emitHTMLNode(ns, node.child, 0)

\* the lines of the roots from the k-th on
RECURSIVE RootLinesFrom(_)
RootLinesFrom(k) ==
  IF k > Len(roots) THEN <<>> ELSE emitHTMLNode(nodes, nodes[roots[k]], 0) \o RootLinesFrom(k + 1)

RECURSIVE NthNonBlank(_, _, _)
NthNonBlank(lines, k, n) ==
  IF TrimStart(lines[k]) = "" THEN NthNonBlank(lines, k + 1, n)
  ELSE IF n = 1 THEN TrimStart(lines[k])
  ELSE NthNonBlank(lines, k + 1, n - 1)

LineOf(id) == NthNonBlank(bodyLines, 1, id)

\* the text after the first > of a marker line, trimmed
AfterFirstGt(line) == Trim(SliceFrom(line, IndexOf(line, ">") + 1))

\* C15: a line that starts with ? and holds > and | is a ternary whose
\* condition is the trimmed text between ? and the first >, whose consequent
\* is the parse of the text from there to the first | at bracket depth 0 and
\* whose alternate is the parse of the text after that |, so that the text
\* after > is split at one | with nothing dropped and nothing in both branches.
C15_TernaryGrammar ==
  \A id \in 1..Len(nodes) :
    (StartsWith(LineOf(id), "?") /\ Includes(LineOf(id), ">") /\ Includes(LineOf(id), "|")) =>
      LET rest == AfterFirstGt(LineOf(id))
          pipe == findUnbraced(rest, "|")
      IN /\ nodes[id].type = "ternary"
         /\ nodes[id].condition = Trim(Slice(LineOf(id), 1, IndexOf(LineOf(id), ">")))
         /\ pipe >= 0
         /\ nodes[id].consequent = EnsureChildren(classifyAndParse(Trim(Slice(rest, 0, pipe)), Ctx))
         /\ nodes[id].alternate = EnsureChildren(classifyAndParse(Trim(SliceFrom(rest, pipe + 1)), Ctx))

\* the non-blank body lines, in order: the k-th one is the line of node k
NonBlankLines == SelectSeq(bodyLines, LAMBDA l : TrimStart(l) # "")

IndentAt(k) == Len(NonBlankLines[k]) - Len(TrimStart(NonBlankLines[k]))

\* the nearest preceding non-blank line with strictly smaller indentation, 0 if none
Shallower(k) == {j \in 1..(k - 1) : IndentAt(j) < IndentAt(k)}
ParentLine(k) ==
  IF Shallower(k) = {} THEN 0 ELSE CHOOSE j \in Shallower(k) : \A h \in Shallower(k) : h <= j

\* the lines whose parent line is p, in line order
LinesUnder(p) ==
  SelectSeq([k \in 1..Len(NonBlankLines) |-> k], LAMBDA k : ParentLine(k) = p)

NoMarkerLines == \A id \in 1..Len(nodes) : nodes[id].type \notin {"conditional", "map"}

RenderedInOutput(id) ==
  emitJSX(nodes, nodes[id], 0) # <<>> => Includes(output, emitJSX(nodes, nodes[id], 0)[1])

\* C20: in JSX format the output contains the rendering of the node of
\* every non-blank body line, whatever the kind of the line it is indented under.
C20_EveryNodeRendered ==
  (pc = "done" /\ format = "jsx" /\ ~raised) =>
    \A id \in 1..Len(nodes) : RenderedInOutput(id)

\* the positions of the commas of a block that stand outside every bracket
\* pair and outside every double-quoted span; st is [at, depth, inQuote]
RECURSIVE TopLevelCommas(_, _, _)
TopLevelCommas(block, k, st) ==
  IF k >= Len(block) THEN st.at
  ELSE LET ch == CharAt(block, k)
       IN TopLevelCommas(block, k + 1,
            IF ch = "\"" THEN [st EXCEPT !.inQuote = ~@]
            ELSE IF st.inQuote THEN st
            ELSE IF ch \in {"{", "(", "["} THEN [st EXCEPT !.depth = @ + 1]
            ELSE IF ch \in {"}", ")", "]"} THEN [st EXCEPT !.depth = @ - 1]
            ELSE IF ch = "," /\ st.depth = 0 THEN [st EXCEPT !.at = Append(@, k)]
            ELSE st)

\* the pieces of a block between the given positions
RECURSIVE PiecesFrom(_, _, _)
PiecesFrom(block, start, at) ==
  IF at = <<>> THEN <<SliceFrom(block, start)>>
  ELSE <<Slice(block, start, Head(at))>> \o PiecesFrom(block, Head(at) + 1, Tail(at))

\* the props block parseElement hands to splitProps for a line "a {...}"
BlockOf(line) == Slice(line, 3, Len(line) - 1)

\* C21: splitProps cuts a props block at the commas outside every bracket
\* pair and every quoted span and nowhere else, and the parts joined with
\* commas are the block.
C21_SplitTopLevelCommas ==
  \A id \in 1..Len(nodes) :
    (StartsWith(LineOf(id), "a {") /\ findBalancedBrace(LineOf(id), 2) = Len(LineOf(id)) - 1) =>
      /\ splitProps(BlockOf(LineOf(id)))
           = PiecesFrom(BlockOf(LineOf(id)), 0,
                        TopLevelCommas(BlockOf(LineOf(id)), 0, [at |-> <<>>, depth |-> 0, inQuote |-> FALSE]))
      /\ Join(splitProps(BlockOf(LineOf(id))), ",") = BlockOf(LineOf(id))

\* the text after the last dot of a collection
RECURSIVE FinalSegment(_)
FinalSegment(c) == IF Includes(c, ".") THEN FinalSegment(SliceFrom(c, IndexOf(c, ".") + 1)) ELSE c

\* the rules in their order: <<whether the rule matches, what it gives>>
ParamRules(seg) ==
  <<<<EndsWith(seg, "ies"), SubSeq(seg, 1, Len(seg) - 3) \o "y">>,
    <<\E e \in {"ses", "xes", "zes"} : EndsWith(seg, e), SubSeq(seg, 1, Len(seg) - 2)>>,
    <<EndsWith(seg, "ren") /\ Len(seg) > 4, SubSeq(seg, 1, Len(seg) - 3)>>,
    <<EndsWith(seg, "s") /\ ~EndsWith(seg, "ss"), SubSeq(seg, 1, Len(seg) - 1)>>,
    <<TRUE, "item">>>>

FirstMatching(rules) ==
  rules[CHOOSE k \in 1..Len(rules) : rules[k][1] /\ \A h \in 1..(k - 1) : ~rules[h][1]][2]

MapIds == {id \in 1..Len(nodes) : nodes[id].type = "map"}

\* C23: the iteration parameter of a map node is what the first matching
\* rule gives for the final dotted segment of its collection: -ies to -y,
\* -ses/-xes/-zes without the last 2, -ren (longer than 4) without the last
\* 3, -s but not -ss without the last, otherwise item.
C23_Singularize ==
  \A id \in MapIds : nodes[id].param = FirstMatching(ParamRules(FinalSegment(nodes[id].collection)))

\* categories has been decoded with the parameter category
C23_Witness ==
  /\ pc = "done" /\ format = "jsx"
  /\ jsxn = "*categories > li"
  /\ nodes[1].param = "category"
  /\ output = "{categories.map(category => (<li />))}"

\* C24: the iteration parameter of every map node is a non-empty string.
C24_ParamNonEmpty ==
  \A id \in MapIds : nodes[id].param # ""

\* the lines of the input, and those that are alias headers
InputLines == Split(jsxn, "\n")
IsHeaderLine(line) == \E prefix \in {"@C ", "@P ", "@S "} : StartsWith(line, prefix)
NotBlank(line) == Trim(line) # ""

\* the entries name=alias of the header lines with the prefix, as <<alias, name>>
HeaderEntriesOf(prefix) ==
  {<<Trim(SliceFrom(Trim(e), IndexOf(Trim(e), "=") + 1)), Trim(Slice(Trim(e), 0, IndexOf(Trim(e), "=")))>> :
     e \in {x \in UNION {Range(Split(SliceFrom(InputLines[k], 3), ",")) :
                          k \in {n \in 1..Len(InputLines) : StartsWith(InputLines[n], prefix)}} :
              Includes(x, "=")}}

\* the reverse map holds the entries and nothing else
HoldsExactly(reverse, entries) ==
  /\ \A e \in entries : MapGetOr(reverse, e[1], "") = e[2]
  /\ Len(reverse) = Cardinality(entries)

\* the tag token of an element line that does not start with a selector
TagToken(line) == Slice(line, 0, ReadTag(line, 0))

\* C26: the header lines, wherever they stand, are not in the body and the
\* other lines are; every entry with = of every header line is in the
\* reverse map of its namespace and the entries without = add nothing; the
\* component aliases are resolved on every body line, those before the
\* header line included.
C26_HeadersFirst ==
  pc \in {"buildTree", "done"} /\ bodyLines # <<>> =>
    /\ \A k \in 1..Len(bodyLines) : ~IsHeaderLine(bodyLines[k])
    /\ SelectSeq(bodyLines, NotBlank)
         = SelectSeq(InputLines, LAMBDA l : ~IsHeaderLine(l) /\ ~IsDoctypeLine(l) /\ NotBlank(l))
    /\ HoldsExactly(reverseComp, HeaderEntriesOf("@C "))
    /\ HoldsExactly(reverseProp, HeaderEntriesOf("@P "))
    /\ HoldsExactly(reverseClass, HeaderEntriesOf("@S "))
    /\ \A id \in ElementIds :
         (CharAt(LineOf(id), 0) \notin {".", "#"} /\ MapHas(reverseComp, TagToken(LineOf(id)))) =>
           nodes[id].tag = MapGet(reverseComp, TagToken(LineOf(id)))

\* a body line stands before the headers that give its aliases
C26_Witness ==
  /\ pc = "done"
  /\ jsxn = "C {s:logo.png}\n@C Card=C\n@P src=s, oops, title=t"
  /\ bodyLines = <<"C {s:logo.png}">>
  /\ reverseProp = <<<<"s", "src">>, <<"t", "title">>>>
  /\ nodes[1].tag = "Card"
  /\ nodes[1].props = <<[type |-> "string", name |-> "src", value |-> "logo.png"]>>

\* the node of the upper frame hangs under the node of the lower one: as its
\* inline child, or as one of its children
HangsUnder(upper, lower) ==
  IF upper.sub = "child" THEN lower.sub = "self" /\ lower.node = upper.node
  ELSE upper.node \in Range(FrameNode(nodes, lower).children)

\* C27: after any number of body lines, the indents of the stack frames are
\* strictly increasing from bottom to top, the node of each frame is a
\* descendant of the node of the frame below it, and the node of the bottom
\* frame is the last root.
C27_StackInvariant ==
  /\ \A k \in 1..(Len(stack) - 1) : stack[k].indent < stack[k + 1].indent
  /\ \A k \in 1..(Len(stack) - 1) : HangsUnder(stack[k + 1], stack[k])
  /\ stack # <<>> => roots # <<>> /\ stack[1].sub = "self" /\ stack[1].node = roots[Len(roots)]

\* the frames of a line, of a conditional under it and of its inline child
C27_Witness ==
  /\ pc = "done"
  /\ jsxn = "div\n ?c > a"
  /\ Len(stack) = 3
  /\ stack[3].sub = "child"

----------------------------------------------------------------------------
(* html-parser.js: parseHTML, one iteration of its main loop per step *)

Whitespace == {" ", "\n", "\t"}
HTML_VOID_ELEMENTS ==
  {"area", "base", "br", "col", "embed", "hr", "img", "input",
   "link", "meta", "param", "source", "track", "wbr"}
RAW_ELEMENTS == {"script", "style"}

\* while (pos < html.length && !stop.test(html[pos])) pos++
RECURSIVE ScanTo(_, _, _)
ScanTo(h, p, stop) ==
  IF p < Len(h) /\ CharAt(h, p) \notin stop THEN ScanTo(h, p + 1, stop) ELSE p

\* while (pos < html.length && /\s/.test(html[pos])) pos++
RECURSIVE SkipWhitespace(_, _)
SkipWhitespace(h, p) ==
  IF p < Len(h) /\ CharAt(h, p) \in Whitespace THEN SkipWhitespace(h, p + 1) ELSE p

\* rawText.replace(/\s+/g, ' ')
RECURSIVE CollapseWhitespace(_)
CollapseWhitespace(t) ==
  IF t = "" THEN ""
  ELSE IF CharAt(t, 0) \in Whitespace
       THEN " " \o CollapseWhitespace(SliceFrom(t, SkipWhitespace(t, 0)))
       ELSE CharAt(t, 0) \o CollapseWhitespace(SliceFrom(t, 1))

\* value.split(/\s+/).filter(Boolean)
SplitWhitespace(value) == SelectSeq(Split(CollapseWhitespace(value), " "), LAMBDA w : w # "")

\* an attribute {name, value}; value null is hasValue FALSE
Attr(n, v, given) == [name |-> n, value |-> v, hasValue |-> given]

\* the value of an attribute read from valStart, quoted or bare: [pos, value]
ReadValue(h, valStart) ==
  LET quoted == valStart < Len(h) /\ CharAt(h, valStart) \in {"\"", "'"}
      valEnd == IF quoted THEN ScanTo(h, valStart + 1, {CharAt(h, valStart)})
                ELSE ScanTo(h, valStart, Whitespace \cup {">"})
  IN IF quoted
     THEN [pos |-> IF valEnd < Len(h) THEN valEnd + 1 ELSE valEnd, value |-> Slice(h, valStart + 1, valEnd)]
     ELSE [pos |-> valEnd, value |-> Slice(h, valStart, valEnd)]

\* one round of the loop of parseAttrs at the non-blank position nameStart:
\* [pos, attrs], the position reached and the attribute read, if any
ReadAttr(h, nameStart) ==
  LET nameEnd == ScanTo(h, nameStart, Whitespace \cup {"=", "/", ">"})
      eq == SkipWhitespace(h, nameEnd)
      val == ReadValue(h, SkipWhitespace(h, eq + 1))
  IN IF Slice(h, nameStart, nameEnd) = "" THEN [pos |-> nameEnd + 1, attrs |-> <<>>]
     ELSE IF eq < Len(h) /\ CharAt(h, eq) = "="
          THEN [pos |-> val.pos, attrs |-> <<Attr(Slice(h, nameStart, nameEnd), val.value, TRUE)>>]
     ELSE [pos |-> eq, attrs |-> <<Attr(Slice(h, nameStart, nameEnd), "", FALSE)>>]

\* parseAttrs, from position p: [pos, attrs]
RECURSIVE parseAttrs(_, _, _)
parseAttrs(h, p, attrs) ==
  LET at == SkipWhitespace(h, p)
      read == ReadAttr(h, at)
  IN IF p >= Len(h) THEN [pos |-> p, attrs |-> attrs]
     ELSE IF at >= Len(h) \/ CharAt(h, at) \in {">", "/"} THEN [pos |-> at, attrs |-> attrs]
     ELSE parseAttrs(h, read.pos, attrs \o read.attrs)

\* addChild(node): the node gets the next id
addChild(st, node) ==
  LET id == Len(st.nodes) + 1
  IN IF st.stack # <<>>
     THEN [st EXCEPT !.nodes = Append([@ EXCEPT ![st.stack[Len(st.stack)]].children = Append(@, id)], node)]
     ELSE [st EXCEPT !.nodes = Append(@, node), !.roots = Append(@, id)]

\* closePattern.exec(html.slice(pos)): the first k >= p where </tag\s*> starts, as
\* [index, length], index -1 for no match
RECURSIVE RawClose(_, _, _)
RawClose(h, k, tag) ==
  LET close == "</" \o tag
      gt == SkipWhitespace(h, k + Len(close))
  IN IF k + Len(close) >= Len(h) THEN [index |-> -1, length |-> 0]
     ELSE IF ToLowerCase(Slice(h, k, k + Len(close))) = close /\ CharAt(h, gt) = ">"
          THEN [index |-> k, length |-> gt + 1 - k]
     ELSE RawClose(h, k + 1, tag)

\* the stack after a closing tag: popped down to the nearest open closeTag
RECURSIVE CloseTo(_, _, _, _)
CloseToIncluded(ns, st, k, closeTag) ==
  IF k = 0 THEN st
  ELSE IF ns[st[k]].tag = closeTag THEN SubSeq(st, 1, k)
  ELSE CloseTo(ns, st, k - 1, closeTag)
CloseTo(ns, st, k, closeTag) ==
  IF k = 0 THEN st
  ELSE IF ns[st[k]].tag = closeTag THEN SubSeq(st, 1, k - 1)
  ELSE CloseTo(ns, st, k - 1, closeTag)

\* /^<!doctype\s/i.test(html.slice(pos, pos + 11))
IsDoctypeAt(h, p) ==
  ToLowerCase(Slice(h, p, p + 9)) = "<!doctype" /\ CharAt(h, p + 9) \in Whitespace

\* the element of an opening tag whose name and attributes are read; a is the
\* result of parseAttrs
OpenElement(h, st, tag, a) ==
  LET selfClose == a.pos < Len(h) /\ CharAt(h, a.pos) = "/"
      afterSlash == IF selfClose THEN a.pos + 1 ELSE a.pos
      afterTag == IF afterSlash < Len(h) /\ CharAt(h, afterSlash) = ">" THEN afterSlash + 1 ELSE afterSlash
      id == Len(st.nodes) + 1
      isVoid == tag \in HTML_VOID_ELEMENTS
      added == addChild(st, [tag |-> tag, attrs |-> a.attrs, children |-> <<>>])
      match == RawClose(h, afterTag, tag)
  IN IF isVoid \/ selfClose THEN [added EXCEPT !.pos = afterTag]
     ELSE IF tag \in RAW_ELEMENTS /\ match.index # -1
          THEN [added EXCEPT !.pos = match.index + match.length,
                             !.nodes = IF Trim(Slice(h, afterTag, match.index)) # ""
                                       THEN Append([@ EXCEPT ![id].children = Append(@, id + 1)],
                                                   [text |-> Slice(h, afterTag, match.index)])
                                       ELSE @]
     ELSE [added EXCEPT !.pos = afterTag, !.stack = Append(@, id)]

\* an opening tag at st.pos
OpenTagStuck(h, st) ==
  IF ToLowerCase(Slice(h, st.pos + 1, ScanTo(h, st.pos + 1, Whitespace \cup {"/", ">"}))) = "" THEN st
  ELSE OpenElement(h, st, ToLowerCase(Slice(h, st.pos + 1, ScanTo(h, st.pos + 1, Whitespace \cup {"/", ">"}))),
                   parseAttrs(h, ScanTo(h, st.pos + 1, Whitespace \cup {"/", ">"}), <<>>))
OpenTag(h, st) ==
  LET tagEnd == ScanTo(h, st.pos + 1, Whitespace \cup {"/", ">"})
      tag == ToLowerCase(Slice(h, st.pos + 1, tagEnd))
  IN IF tag = "" THEN [st EXCEPT !.pos = tagEnd]
     ELSE OpenElement(h, st, tag, parseAttrs(h, tagEnd, <<>>))

\* one iteration of while (pos < html.length); st is [pos, doctype, nodes, roots, stack]
parseHTMLStep(h, st) ==
  LET p == st.pos
      commentEnd == IndexOfFrom(h, "-->", p + 4)
      gt == IndexOfFrom(h, ">", p)
      closeEnd == IndexOfFrom(h, ">", p + 2)
      closeTag == ToLowerCase(Trim(Slice(h, p + 2, closeEnd)))
      textEnd == ScanTo(h, p, {"<"})
      text == Trim(CollapseWhitespace(Slice(h, p, textEnd)))
  IN IF CharAt(h, p) # "<"
     THEN (IF text # "" THEN [addChild(st, [text |-> text]) EXCEPT !.pos = textEnd]
           ELSE [st EXCEPT !.pos = textEnd])
     ELSE IF StartsWithAt(h, "<!--", p)
     THEN [st EXCEPT !.pos = IF commentEnd = -1 THEN Len(h) ELSE commentEnd + 3]
     ELSE IF IsDoctypeAt(h, p)
     THEN (IF gt # -1 THEN [st EXCEPT !.doctype = Trim(Slice(h, p + 2, gt)), !.pos = gt + 1]
           ELSE [st EXCEPT !.pos = Len(h)])
     ELSE IF p + 1 < Len(h) /\ CharAt(h, p + 1) = "/"
     THEN (IF closeEnd = -1 THEN [st EXCEPT !.pos = Len(h)]
           ELSE [st EXCEPT !.pos = closeEnd + 1,
                           !.stack = CloseTo(st.nodes, @, Len(@), closeTag)])
     ELSE OpenTag(h, st)

ParseHTMLStep ==
  /\ pc = "parseHTML"
  /\ htmlPos < Len(html)
  /\ LET st == parseHTMLStep(html, [pos |-> htmlPos, doctype |-> doctype, nodes |-> htmlNodes,
                                     roots |-> htmlRoots, stack |-> htmlStack])
     IN /\ htmlPos' = st.pos
        /\ doctype' = st.doctype
        /\ htmlNodes' = st.nodes
        /\ htmlRoots' = st.roots
        /\ htmlStack' = st.stack
  /\ UNCHANGED <<pc, inputVars, tool, aliasVars, jsxn, format, headerVars, treeVars, output, raised>>

----------------------------------------------------------------------------
(* html-encoder.js and html-emitter.js: the notation of an HTML tree *)

IsTextNode(node) == "text" \in DOMAIN node

\* map.set(key, (map.get(key) ?? 0) + 1)
Count(m, key) == MapSet(m, key, MapGetOr(m, key, 0) + 1)

RECURSIVE CountAll(_, _)
CountAll(m, keys) == IF keys = <<>> THEN m ELSE CountAll(Count(m, Head(keys)), Tail(keys))

\* the loop of analyzeHTML over the attributes of one element
RECURSIVE CountAttrs(_, _)
CountAttrs(attrs, freq) ==
  IF attrs = <<>> THEN freq
  ELSE LET attr == Head(attrs)
       IN CountAttrs(Tail(attrs),
            IF attr.name = "class"
            THEN [freq EXCEPT !.classes = CountAll(@, SplitWhitespace(attr.value))]
            ELSE IF attr.name = "id" THEN freq
            ELSE [freq EXCEPT !.props = Count(@, attr.name)])

\* walk(nodes)
RECURSIVE HtmlWalk(_, _, _)
HtmlWalk(ns, ids, freq) ==
  IF ids = <<>> THEN freq
  ELSE LET node == ns[Head(ids)]
       IN HtmlWalk(ns, Tail(ids),
            IF IsTextNode(node) THEN freq
            ELSE HtmlWalk(ns, node.children, CountAttrs(node.attrs, freq)))

analyzeHTML(ns, rootIds) ==
  HtmlWalk(ns, rootIds, [components |-> <<>>, props |-> <<>>, classes |-> <<>>])

formatAttrs(attrs, propAlias) ==
  LET part(attr) ==
        LET alias == MapGetOr(propAlias, attr.name, attr.name)
        IN IF ~attr.hasValue THEN alias
           ELSE IF Includes(attr.value, ",") THEN alias \o ":\"" \o attr.value \o "\""
           ELSE alias \o ":" \o attr.value
  IN IF attrs = <<>> THEN ""
     ELSE "{" \o Join([k \in 1..Len(attrs) |-> part(attrs[k])], ", ") \o "}"

\* the value of the last attribute of that name, attr.value || ''
LastValue(attrs, name) ==
  LET named == SelectSeq(attrs, LAMBDA a : a.name = name) IN named[Len(named)].value

\* the tag line of html-emitter.js emitNode
HtmlTagLine(node, propAlias, classAlias) ==
  LET hasClass == \E k \in 1..Len(node.attrs) : node.attrs[k].name = "class"
      hasId == \E k \in 1..Len(node.attrs) : node.attrs[k].name = "id"
      classes == IF hasClass THEN SplitWhitespace(LastValue(node.attrs, "class")) ELSE <<>>
      otherAttrs == SelectSeq(node.attrs, LAMBDA a : a.name \notin {"class", "id"})
      propsStr == formatAttrs(otherAttrs, propAlias)
  IN (IF node.tag = "div" /\ (hasId \/ hasClass) THEN "" ELSE node.tag)
     \o (IF hasId THEN "#" \o LastValue(node.attrs, "id") ELSE "")
     \o Join([k \in 1..Len(classes) |-> "." \o MapGetOr(classAlias, classes[k], classes[k])], "")
     \o (IF propsStr # "" THEN " " \o propsStr ELSE "")

\* html-emitter.js emitNode: the lines pushed for a node
RECURSIVE emitNodeHTML(_, _, _, _, _)
RECURSIVE EmitNodesHTML(_, _, _, _, _)
emitNodeHTML(ns, node, level, propAlias, classAlias) ==
  IF IsTextNode(node)
  THEN (IF Trim(node.text) # "" THEN <<Repeat(" ", level) \o "\"" \o Trim(node.text) \o "\"">> ELSE <<>>)
  ELSE LET line == Repeat(" ", level) \o HtmlTagLine(node, propAlias, classAlias)
           sigChildren == SelectSeq(node.children,
                            LAMBDA c : ~IsTextNode(ns[c]) \/ Len(Trim(ns[c].text)) > 0)
       IN IF sigChildren = <<>> THEN <<line>>
          ELSE IF Len(sigChildren) = 1 /\ IsTextNode(ns[sigChildren[1]])
               THEN <<line \o " \"" \o Trim(ns[sigChildren[1]].text) \o "\"">>
          ELSE <<line>> \o EmitNodesHTML(ns, sigChildren, level + 1, propAlias, classAlias)

EmitNodesHTML(ns, ids, level, propAlias, classAlias) ==
  IF ids = <<>> THEN <<>>
  ELSE emitNodeHTML(ns, ns[Head(ids)], level, propAlias, classAlias)
       \o EmitNodesHTML(ns, Tail(ids), level, propAlias, classAlias)

emitHTML(ns, rootIds, al) == Join(EmitNodesHTML(ns, rootIds, 0, al.props, al.classes), "\n")

\* encodeHTML after parseHTML has returned
encodeHTML(ns, rootIds, dt, al) ==
  LET headers == formatHeaders(al)
      body == emitHTML(ns, rootIds, al)
      parts == (IF dt # "" THEN <<"!" \o dt>> ELSE <<>>) \o (IF headers # "" THEN <<headers>> ELSE <<>>)
  IN Join(parts \o (IF parts # <<>> /\ body # "" THEN <<"">> ELSE <<>>) \o <<body>>, "\n")

\* encodeHTML once the tokenizer has reached the end, handed to decode
EncodeHTML ==
  /\ pc = "parseHTML"
  /\ htmlPos >= Len(html)
  /\ LET freq == analyzeHTML(htmlNodes, htmlRoots)
         al == generateAliases(freq)
     IN /\ frequencies' = freq
        /\ aliases' = al
        /\ jsxn' = encodeHTML(htmlNodes, htmlRoots, doctype, al)
  /\ pc' = "decode"
  /\ UNCHANGED <<inputVars, tool, htmlVars, format, headerVars, treeVars, output, raised>>

----------------------------------------------------------------------------
(* HTML in, notation, HTML out: SpecHtml *)

MaxPieces == 2

HtmlPieces ==
  {"<!DOCTYPE html>", "<!Doctype html>", "<!-- c -->", "hi", "<br>",
   "<div class=\"items-center b\">", "</div>",
   "<p id=\"m\" title=\"x, y\" hidden>", "</P>",
   "<use xlink:href=\"#a\"/>", "<a href=x>", "<style>a<b</style>", "<", "</x>",
   "<ul><li>", "</UL>b", "<div/>"}

\* input that breaks off or is no tag: a < followed by whitespace, an attribute
\* that starts with =, an unterminated comment, doctype, closing tag, tag,
\* quote and raw element
MalformedHtml ==
  {"< ", "<a =x>", "<a = >", "<!-- c", "<!DOCTYPE html", "</div", "<div", "<p id=\"m", "<p id=",
   "<style>a<b", "<script", "<<"}

HtmlDocuments ==
  {Join(d, "") : d \in UNION {[1..n -> HtmlPieces] : n \in 1..MaxPieces}}
  \cup {m \o t : m \in MalformedHtml, t \in {"", " x>", "<br>"}}

InitHtml ==
  /\ pc = "parseHTML"
  /\ html \in HtmlDocuments
  /\ htmlPos = 0 /\ doctype = ""
  /\ htmlNodes = <<>> /\ htmlRoots = <<>> /\ htmlStack = <<>>
  /\ NoJsx /\ NoImport
  /\ NoAliases
  /\ jsxn = ""
  /\ format = "html"
  /\ NoHeaders /\ NoRequest
  /\ NoTree
  /\ output = ""
  /\ raised = FALSE

NextHtml == ParseHTMLStep \/ EncodeHTML \/ DecodeHeaders \/ BuildTreeLine \/ DecodeEmit

SpecHtml == InitHtml /\ [][NextHtml]_vars

\* the condition of the loop of parseHTML: while (pos < len)
LoopRuns == pc = "parseHTML" /\ htmlPos < Len(html)

\* The loop of parseHTML is synchronous code: while its condition holds, the
\* next iteration runs.  This is the weak fairness of ParseHTMLStep, written
\* with the loop condition in the place of ENABLED <<ParseHTMLStep>>_vars.
SpecHtmlLive ==
  SpecHtml /\ ([]<>(~LoopRuns) \/ []<><<ParseHTMLStep>>_vars)

\* the opening tag of a parsed element with its attributes as parsed, in order
SourceOpenTag(node) ==
  node.tag \o Join([k \in 1..Len(node.attrs) |->
                      IF node.attrs[k].hasValue
                      THEN " " \o node.attrs[k].name \o "=\"" \o node.attrs[k].value \o "\""
                      ELSE " " \o node.attrs[k].name], "")

\* C3: once the notation of an HTML input is decoded as HTML, every element of
\* the parsed input is rendered with its attribute names and values, in order.
C3_AttributesRoundTrip ==
  pc = "done" =>
    \A id \in 1..Len(htmlNodes) :
      ~IsTextNode(htmlNodes[id]) =>
        \/ Includes(output, "<" \o SourceOpenTag(htmlNodes[id]) \o ">")
        \/ Includes(output, "<" \o SourceOpenTag(htmlNodes[id]) \o " />")

\* C8: an input with a doctype declaration decodes to text that starts with
\* the line <!DOCTYPE html> and holds no element made of the doctype; an input
\* without one decodes to text without a doctype line.
C8_DoctypeRoundTrip ==
  pc = "done" =>
    IF doctype # ""
    THEN /\ StartsWith(output, "<!DOCTYPE html>")
         /\ \A id \in 1..Len(nodes) : nodes[id].type = "element" => ~StartsWith(nodes[id].tag, "!")
    ELSE ~Includes(output, "<!DOCTYPE")

\* the read position is at a closing tag that has its >
AtClosingTag ==
  /\ pc = "parseHTML" /\ htmlPos < Len(html)
  /\ StartsWithAt(html, "</", htmlPos)
  /\ IndexOfFrom(html, ">", htmlPos + 2) # -1

\* the open elements with the lower-cased name of the closing tag
OpenMatches ==
  {k \in 1..Len(htmlStack) :
     htmlNodes[htmlStack[k]].tag
       = ToLowerCase(Trim(Slice(html, htmlPos + 2, IndexOfFrom(html, ">", htmlPos + 2))))}

\* the read position is at an opening tag written <tag ... />
AtSelfClosedTag ==
  /\ pc = "parseHTML" /\ htmlPos < Len(html)
  /\ CharAt(html, htmlPos) = "<" /\ IsLetter(CharAt(html, htmlPos + 1))
  /\ IndexOfFrom(html, ">", htmlPos) # -1
  /\ CharAt(html, IndexOfFrom(html, ">", htmlPos) - 1) = "/"
  /\ \/ CharAt(html, IndexOfFrom(html, ">", htmlPos) - 2) = "\""
     \/ ~Includes(Slice(html, htmlPos, IndexOfFrom(html, ">", htmlPos)), "=")

\* what one iteration at a closing tag does to the stack and to the tree
ClosingTagEffect ==
  AtClosingTag =>
    /\ htmlNodes' = htmlNodes /\ htmlRoots' = htmlRoots
    /\ htmlStack' = IF OpenMatches = {} THEN htmlStack
                    ELSE SubSeq(htmlStack, 1, (CHOOSE k \in OpenMatches : \A h \in OpenMatches : h <= k) - 1)

\* a self-closed element is not pushed, and an element that exists gets a
\* child only while it is the top of the stack
NeverPushedEffect ==
  /\ AtSelfClosedTag => htmlStack' = htmlStack
  /\ \A id \in 1..Len(htmlNodes) :
       (~IsTextNode(htmlNodes[id]) /\ htmlNodes'[id].children # htmlNodes[id].children) =>
         htmlStack # <<>> /\ htmlStack[Len(htmlStack)] = id

\* no void element is on the stack or has children
VoidNeverOpen ==
  /\ \A k \in 1..Len(htmlStack) : htmlNodes[htmlStack[k]].tag \notin HTML_VOID_ELEMENTS
  /\ \A id \in 1..Len(htmlNodes) :
       (~IsTextNode(htmlNodes[id]) /\ htmlNodes[id].tag \in HTML_VOID_ELEMENTS) => htmlNodes[id].children = <<>>

\* C28: a closing tag pops the stack down to below the nearest open element
\* of its lower-cased name and changes nothing when there is none, the tree
\* untouched in both cases; void and self-closed elements are never on the
\* stack and never get children.
C28_ClosingTags ==
  /\ []VoidNeverOpen
  /\ [][ClosingTagEffect /\ NeverPushedEffect]_vars

\* </UL> has closed the ul and the li opened after it: the text is a root
C28_Witness ==
  /\ html = "<ul><li></UL>b"
  /\ htmlPos = Len(html)
  /\ htmlStack = <<>>
  /\ htmlRoots = <<1, 3>>
  /\ htmlNodes[1].children = <<2>>

\* the next iteration of the main loop ends at a later position, within the input
StepAdvances ==
  (pc = "parseHTML" /\ htmlPos < Len(html)) =>
    LET next == parseHTMLStep(html, [pos |-> htmlPos, doctype |-> doctype, nodes |-> htmlNodes,
                                     roots |-> htmlRoots, stack |-> htmlStack]).pos
    IN htmlPos < next /\ next <= Len(html)

\* a round of the attribute loop, wherever it starts, ends at a later position
AttrAdvances ==
  \A p \in 0..(Len(html) - 1) :
    CharAt(html, p) \notin Whitespace \cup {">", "/"} =>
      p < ReadAttr(html, p).pos /\ ReadAttr(html, p).pos <= Len(html)

\* C29: every iteration of the main loop of parseHTML and of its attribute
\* loop strictly advances the read position, and the parse of every input
\* comes to its end.
C29_Terminates ==
  /\ [](StepAdvances /\ AttrAdvances)
  /\ <>(htmlPos >= Len(html))

\* an attribute that starts with = has been read through
C29_Witness ==
  /\ html = "<a =x>"
  /\ htmlPos = Len(html)
  /\ htmlNodes = <<[tag |-> "a", attrs |-> <<Attr("x", "", FALSE)>>, children |-> <<>>]>>

----------------------------------------------------------------------------
(* analyzer.js: the frequency tables of a Babel AST.  An expression node   *)
(* carries its source span code.slice(start, end) in the field src.        *)

\* the name of a JSXAttribute
PropName(attr) ==
  IF attr.name.type = "JSXNamespacedName"
  THEN attr.name.namespace.name \o ":" \o attr.name.name.name
  ELSE attr.name.name

\* the loop of analyze over the attributes of one opening element
RECURSIVE CountJsxAttrs(_, _)
CountJsxAttrs(attrs, freq) ==
  IF attrs = <<>> THEN freq
  ELSE LET attr == Head(attrs)
       IN CountJsxAttrs(Tail(attrs),
            IF attr.type # "JSXAttribute" THEN freq
            ELSE IF PropName(attr) = "className"
            THEN (IF attr.value.type = "StringLiteral"
                  THEN [freq EXCEPT !.classes = CountAll(@, SplitWhitespace(attr.value.value))]
                  ELSE freq)
            ELSE IF PropName(attr) = "id" THEN freq
            ELSE [freq EXCEPT !.props = Count(@, PropName(attr))])

\* the JSXOpeningElement visitor of analyze
JSXOpeningElement(opening, freq) ==
  CountJsxAttrs(opening.attributes,
    IF opening.name.type = "JSXIdentifier" /\ IsUpper(CharAt(opening.name.name, 0))
    THEN [freq EXCEPT !.components = Count(@, opening.name.name)]
    ELSE freq)

\* traverse(ast, ...): every opening element, in source order
RECURSIVE Traverse(_, _)
RECURSIVE TraverseAll(_, _)
Traverse(node, freq) ==
  CASE node.type = "JSXElement" ->
         TraverseAll(node.children, JSXOpeningElement(node.openingElement, freq))
    [] node.type = "JSXFragment" -> TraverseAll(node.children, freq)
    [] node.type \in {"JSXExpressionContainer", "ParenthesizedExpression"} ->
         Traverse(node.expression, freq)
    [] node.type = "LogicalExpression" -> Traverse(node.right, Traverse(node.left, freq))
    [] node.type = "ConditionalExpression" ->
         Traverse(node.alternate, Traverse(node.consequent, freq))
    [] node.type = "CallExpression" -> TraverseAll(node.arguments, freq)
    [] node.type \in {"ArrowFunctionExpression", "FunctionExpression"} -> Traverse(node.body, freq)
    [] node.type = "BlockStatement" -> TraverseAll(node.body, freq)
    [] node.type = "ReturnStatement" -> Traverse(node.argument, freq)
    [] OTHER -> freq

TraverseAll(list, freq) ==
  IF list = <<>> THEN freq ELSE TraverseAll(Tail(list), Traverse(Head(list), freq))

analyze(root) == Traverse(root, [components |-> <<>>, props |-> <<>>, classes |-> <<>>])

----------------------------------------------------------------------------
(* emitter.js: the notation of a JSX tree.  ctx is the alias tables.       *)

indent(level) == Repeat(" ", level)

RECURSIVE getRawTagName(_)
getRawTagName(nameNode) ==
  CASE nameNode.type = "JSXIdentifier" -> nameNode.name
    [] nameNode.type = "JSXMemberExpression" ->
         getRawTagName(nameNode.object) \o "." \o nameNode.property.name
    [] nameNode.type = "JSXNamespacedName" -> nameNode.namespace.name \o ":" \o nameNode.name.name
    [] OTHER -> "unknown"

getTagName(nameNode, compAlias) == MapGetOr(compAlias, getRawTagName(nameNode), getRawTagName(nameNode))

RECURSIVE unwrapParens(_)
unwrapParens(node) ==
  IF node.type = "ParenthesizedExpression" THEN unwrapParens(node.expression) ELSE node

isJSXNode(node) == unwrapParens(node).type \in {"JSXElement", "JSXFragment"}

isMapExpression(expr) ==
  /\ expr.type = "CallExpression"
  /\ expr.callee.type = "MemberExpression"
  /\ expr.callee.property.name = "map"
  /\ Len(expr.arguments) >= 1

\* the first return statement of a block whose argument is JSX
RECURSIVE ReturnedJSX(_)
ReturnedJSX(stmts) ==
  IF stmts = <<>> THEN Null
  ELSE IF Head(stmts).type = "ReturnStatement" /\ isJSXNode(Head(stmts).argument)
       THEN unwrapParens(Head(stmts).argument)
  ELSE ReturnedJSX(Tail(stmts))

getMapCallbackJSX(callback) ==
  IF callback.type \notin {"ArrowFunctionExpression", "FunctionExpression"} THEN Null
  ELSE IF callback.body.type \in {"JSXElement", "JSXFragment"} THEN callback.body
  ELSE IF callback.body.type = "ParenthesizedExpression"
       THEN (IF callback.body.expression.type \in {"JSXElement", "JSXFragment"}
             THEN callback.body.expression ELSE Null)
  ELSE IF callback.body.type = "BlockStatement" THEN ReturnedJSX(callback.body.body)
  ELSE Null

IsAndJSX(expr) == expr.type = "LogicalExpression" /\ expr.operator = "&&" /\ isJSXNode(expr.right)

IsTernaryJSX(expr) ==
  expr.type = "ConditionalExpression" /\ (isJSXNode(expr.consequent) \/ isJSXNode(expr.alternate))

getSignificantChildren(children) ==
  SelectSeq(children,
    LAMBDA child :
      IF child.type = "JSXText" THEN Len(Trim(child.value)) > 0
      ELSE ~(child.type = "JSXExpressionContainer" /\ child.expression.type = "JSXEmptyExpression"))

isInlineChild(child) ==
  IF child.type = "JSXText" THEN TRUE
  ELSE IF child.type = "JSXExpressionContainer"
       THEN ~(\/ IsAndJSX(child.expression)
              \/ IsTernaryJSX(child.expression)
              \/ isMapExpression(child.expression)
              \/ isJSXNode(child.expression))
  ELSE FALSE

\* { type, value }; the value true of a bare attribute is kept as it prints
extractAttrValue(attr) ==
  LET val == attr.value
  IN IF val.type = "null" THEN [type |-> "boolean", value |-> "true"]
     ELSE IF val.type = "StringLiteral" THEN [type |-> "string", value |-> val.value]
     ELSE IF val.type = "JSXExpressionContainer"
          THEN (IF val.expression.type = "StringLiteral"
                THEN [type |-> "string", value |-> val.expression.value]
                ELSE [type |-> "expression", value |-> val.expression.src])
     ELSE [type |-> "string", value |-> ""]

\* one entry of parts in formatProps
PropPart(attr, propAlias) ==
  IF attr.type = "JSXSpreadAttribute" THEN "..." \o attr.argument.src
  ELSE IF extractAttrValue(attr).type = "boolean" THEN MapGetOr(propAlias, PropName(attr), PropName(attr))
  ELSE MapGetOr(propAlias, PropName(attr), PropName(attr)) \o ":" \o extractAttrValue(attr).value

formatProps(props, propAlias) ==
  IF props = <<>> THEN ""
  ELSE "{" \o Join([k \in 1..Len(props) |-> PropPart(props[k], propAlias)], ", ") \o "}"

\* the attributes of that name; the loop of emitNode keeps the last one
Named(attrs, name) ==
  SelectSeq(attrs, LAMBDA a : a.type = "JSXAttribute" /\ PropName(a) = name)

\* "Append #id"
IdSelector(ids) ==
  IF ids = <<>> THEN ""
  ELSE IF extractAttrValue(ids[Len(ids)]).type = "string"
       THEN "#" \o extractAttrValue(ids[Len(ids)]).value
  ELSE "#{" \o extractAttrValue(ids[Len(ids)]).value \o "}"

\* "Append .classes (applying class aliases)"
ClassSelector(classNames, classAlias) ==
  IF classNames = <<>> THEN ""
  ELSE IF extractAttrValue(classNames[Len(classNames)]).type = "string"
       THEN Join([k \in 1..Len(SplitWhitespace(extractAttrValue(classNames[Len(classNames)]).value)) |->
                    "." \o MapGetOr(classAlias,
                                    SplitWhitespace(extractAttrValue(classNames[Len(classNames)]).value)[k],
                                    SplitWhitespace(extractAttrValue(classNames[Len(classNames)]).value)[k])], "")
  ELSE ".{" \o extractAttrValue(classNames[Len(classNames)]).value \o "}"

\* "Build the tag line": let line = tagName, then id, classes and props
TagLine(opening, ctx) ==
  LET propsStr == formatProps(SelectSeq(opening.attributes,
                      LAMBDA a : a.type = "JSXSpreadAttribute" \/ PropName(a) \notin {"className", "id"}),
                    ctx.props)
  IN getTagName(opening.name, ctx.components)
     \o IdSelector(Named(opening.attributes, "id"))
     \o ClassSelector(Named(opening.attributes, "className"), ctx.classes)
     \o (IF propsStr # "" THEN " " \o propsStr ELSE "")

\* the line of an element with its single inline child
InlineLine(line, child) ==
  IF child.type = "JSXText" THEN <<line \o " \"" \o Trim(child.value) \o "\"">>
  ELSE IF child.expression.type = "StringLiteral" THEN <<line \o " \"" \o child.expression.value \o "\"">>
  ELSE <<line \o " (" \o child.expression.src \o ")">>

\* the header line of ? and *, then the rest of the child's lines one space deeper
MarkerLines(head, childLines, level) ==
  <<head \o Trim(childLines[1])>>
  \o [k \in 1..(Len(childLines) - 1) |-> indent(level) \o " " \o childLines[k + 1]]

\* the one line of a ternary: the first line of each branch
TernaryLine(head, consLines, altLines) ==
  <<head \o Trim(consLines[1]) \o " | " \o Trim(altLines[1])>>

RECURSIVE emitNode(_, _, _)
RECURSIVE EmitNodes(_, _, _)
RECURSIVE emitExpression(_, _, _)
RECURSIVE emitMapExpression(_, _, _)

\* "Process children"
EmitChildren(line, children, level, ctx) ==
  IF children = <<>> THEN <<line>>
  ELSE IF Len(children) = 1 /\ isInlineChild(children[1]) THEN InlineLine(line, children[1])
  ELSE <<line>> \o EmitNodes(children, level + 1, ctx)

\* the lines emitNode pushes
emitNode(node, level, ctx) ==
  CASE node.type = "JSXFragment" ->
         <<indent(level) \o "_">> \o EmitNodes(getSignificantChildren(node.children), level + 1, ctx)
    [] node.type = "JSXText" ->
         IF Trim(node.value) # "" THEN <<indent(level) \o "\"" \o Trim(node.value) \o "\"">> ELSE <<>>
    [] node.type = "JSXExpressionContainer" -> emitExpression(node.expression, level, ctx)
    [] node.type = "JSXSpreadChild" -> <<indent(level) \o "(..." \o node.argument.src \o ")">>
    [] node.type = "JSXElement" ->
         EmitChildren(indent(level) \o TagLine(node.openingElement, ctx),
                      getSignificantChildren(node.children), level, ctx)
    [] OTHER -> <<>>

EmitNodes(list, level, ctx) ==
  IF list = <<>> THEN <<>> ELSE emitNode(Head(list), level, ctx) \o EmitNodes(Tail(list), level, ctx)

emitExpression(expr, level, ctx) ==
  IF expr.type = "JSXEmptyExpression" THEN <<>>
  ELSE IF IsAndJSX(expr)
       THEN MarkerLines(indent(level) \o "?" \o expr.left.src \o " > ",
                        emitNode(unwrapParens(expr.right), 0, ctx), level)
  ELSE IF IsTernaryJSX(expr) /\ isJSXNode(expr.consequent) /\ isJSXNode(expr.alternate)
       THEN TernaryLine(indent(level) \o "?" \o expr.test.src \o " > ",
                        emitNode(unwrapParens(expr.consequent), 0, ctx),
                        emitNode(unwrapParens(expr.alternate), 0, ctx))
  ELSE IF isMapExpression(expr) THEN emitMapExpression(expr, level, ctx)
  ELSE <<indent(level) \o "(" \o expr.src \o ")">>

emitMapExpression(expr, level, ctx) ==
  IF getMapCallbackJSX(expr.arguments[1]).type # "null"
  THEN MarkerLines(indent(level) \o "*" \o expr.callee.object.src \o " > ",
                   emitNode(getMapCallbackJSX(expr.arguments[1]), 0, ctx), level)
  ELSE <<indent(level) \o "(" \o expr.src \o ")">>

\* emit(ast, aliases, code) for the one JSX root collectJSX finds
emit(root, al) == Join(emitNode(root, 0, al), "\n")

\* analyze(ast)
Analyze ==
  /\ pc = "parsed"
  /\ frequencies' = analyze(ast)
  /\ pc' = "analyzed"
  /\ UNCHANGED <<inputVars, tool, htmlVars, aliases, jsxn, format, headerVars, treeVars, output, raised>>

\* encode from formatHeaders on, handed to decode
EncodeEmit ==
  /\ pc = "aliased"
  /\ LET headers == formatHeaders(aliases)
         body == emit(ast, aliases)
     IN jsxn' = (IF headers # "" THEN headers \o "\n\n" \o body ELSE body)
  /\ pc' = "decode"
  /\ UNCHANGED <<inputVars, tool, htmlVars, aliasVars, format, headerVars, treeVars, output, raised>>

----------------------------------------------------------------------------
(* JSX in, notation, tree out: SpecJsx *)

MaxChildren == 2

JSXIdentifier(n) == [type |-> "JSXIdentifier", name |-> n]
Source(s) == [type |-> "Identifier", src |-> s]
StringAttr(n, v) ==
  [type |-> "JSXAttribute", name |-> JSXIdentifier(n), value |-> [type |-> "StringLiteral", value |-> v]]
ExprAttr(n, s) ==
  [type |-> "JSXAttribute", name |-> JSXIdentifier(n),
   value |-> [type |-> "JSXExpressionContainer", expression |-> Source(s)]]
BareAttr(n) == [type |-> "JSXAttribute", name |-> JSXIdentifier(n), value |-> Null]
SpreadAttr(s) == [type |-> "JSXSpreadAttribute", argument |-> Source(s)]
JSXElement(nameNode, attrs, children) ==
  [type |-> "JSXElement", openingElement |-> [name |-> nameNode, attributes |-> attrs], children |-> children]
JSXFragment(children) == [type |-> "JSXFragment", children |-> children]
JSXText(v) == [type |-> "JSXText", value |-> v]
Container(expr) == [type |-> "JSXExpressionContainer", expression |-> expr]
AndExpr(c, jsx) ==
  Container([type |-> "LogicalExpression", operator |-> "&&", left |-> Source(c), right |-> jsx])
TernaryExpr(c, a, b, s) ==
  Container([type |-> "ConditionalExpression", test |-> Source(c), consequent |-> a, alternate |-> b, src |-> s])
MapExpr(coll, callback, s) ==
  Container([type |-> "CallExpression",
             callee |-> [type |-> "MemberExpression", object |-> Source(coll), property |-> [name |-> "map"]],
             arguments |-> <<callback>>, src |-> s])
Arrow(jsx) == [type |-> "ArrowFunctionExpression", body |-> jsx]

PlainDiv == JSXElement(JSXIdentifier("div"), <<>>, <<>>)
CardLeaf == JSXElement(JSXIdentifier("Card"), <<ExprAttr("onClick", "go"), StringAttr("type", "big")>>, <<>>)
ListItem == JSXElement(JSXIdentifier("li"), <<StringAttr("className", "items-center")>>, <<>>)

JsxLeaves ==
  {PlainDiv, CardLeaf, ListItem,
   JSXElement(JSXIdentifier("div"), <<StringAttr("className", "outer")>>, <<>>),
   JSXElement(JSXIdentifier("div"), <<StringAttr("id", "x"), StringAttr("className", "y items-center")>>, <<>>),
   JSXElement(JSXIdentifier("img"), <<StringAttr("alt", "a b"), BareAttr("hidden"), SpreadAttr("rest")>>, <<>>),
   JSXElement([type |-> "JSXMemberExpression", object |-> JSXIdentifier("Form"), property |-> [name |-> "Input"]],
              <<ExprAttr("onClick", "go")>>, <<>>),
   JSXElement(JSXIdentifier("p"), <<ExprAttr("className", "cls"), ExprAttr("id", "uid")>>, <<>>)}

JsxItems ==
  JsxLeaves \cup {JSXText("hi"), JSXText("\n  "), JSXText("\n  a\n  b\n"), Container(Source("count")),
                  Container([type |-> "JSXEmptyExpression"])}

ChildLists == UNION {[1..n -> JsxItems] : n \in 1..MaxChildren}

JsxBranches ==
  {JSXElement(JSXIdentifier(tag), <<>>, cs) : tag \in {"ul", "Card"}, cs \in ChildLists}

MarkerBodies ==
  {PlainDiv, CardLeaf, ListItem,
   JSXElement(JSXIdentifier("Card"), <<>>, <<ListItem>>),
   JSXElement(JSXIdentifier("ul"), <<>>, <<JSXText("hi")>>),
   JSXElement(JSXIdentifier("ul"), <<>>, <<ListItem, JSXText("hi")>>),
   JSXFragment(<<CardLeaf>>)}

JsxMarkers ==
  {AndExpr("c", b) : b \in MarkerBodies}
  \cup {MapExpr("items", Arrow(b), "") : b \in MarkerBodies}
  \cup {TernaryExpr("c", a, b, "") : a, b \in {CardLeaf, ListItem, JSXElement(JSXIdentifier("ul"), <<>>, <<ListItem>>)}}
  \cup {TernaryExpr("c", CardLeaf, Source("0"), "c ? <Card /> : 0"),
        MapExpr("items", Source("f"), "items.map(f)"),
        MapExpr("items", [type |-> "FunctionExpression",
                          body |-> [type |-> "BlockStatement",
                                    body |-> <<[type |-> "ReturnStatement", argument |-> ListItem]>>]], ""),
        AndExpr("c", [type |-> "ParenthesizedExpression", expression |-> CardLeaf]),
        AndExpr("n > 0", CardLeaf), AndExpr("a || b", ListItem),
        MapExpr("xs.filter(x => x.ok)", Arrow(ListItem), "")}

\* elements with selectors: an uppercase class token, a member-expression
\* tag with an id and a class, class tokens holding '.' and '['
SelectorLeaves ==
  {JSXElement(JSXIdentifier("div"), <<StringAttr("className", "Foo")>>, <<>>),
   JSXElement([type |-> "JSXMemberExpression", object |-> JSXIdentifier("Form"), property |-> [name |-> "Input"]],
              <<StringAttr("id", "x"), StringAttr("className", "y")>>, <<>>),
   JSXElement(JSXIdentifier("p"), <<StringAttr("className", "p-1.5")>>, <<>>),
   JSXElement(JSXIdentifier("p"), <<StringAttr("id", "x"), StringAttr("className", "w-[1px] y")>>, <<>>)}

\* elements whose children have children of their own
NestedRoots ==
  {JSXElement(JSXIdentifier("div"), <<>>,
              <<JSXElement(JSXIdentifier("ul"), <<>>, <<ListItem, ListItem>>), JSXText("hi")>>),
   JSXElement(JSXIdentifier("div"), <<>>, <<JSXElement(JSXIdentifier("p"), <<>>, <<JSXText("hi")>>)>>),
   JSXElement(JSXIdentifier("div"), <<>>,
              <<JSXElement(JSXIdentifier("ul"), <<>>, <<Container(Source("count"))>>), PlainDiv>>)}

JsxRoots ==
  JsxLeaves \cup JsxBranches \cup SelectorLeaves \cup NestedRoots
  \cup {JSXFragment(<<m>>) : m \in JsxMarkers}
  \cup {JSXElement(JSXIdentifier("div"), <<StringAttr("className", "outer")>>, <<m, CardLeaf>>) : m \in JsxMarkers}

InitJsx ==
  /\ pc = "parsed"
  /\ ast \in JsxRoots
  /\ NoHtml /\ NoImport
  /\ NoAliases
  /\ jsxn = ""
  /\ format = "jsx"
  /\ NoHeaders /\ NoRequest
  /\ NoTree
  /\ output = ""
  /\ raised = FALSE

NextJsx == Analyze \/ GenerateAliases \/ EncodeEmit \/ DecodeHeaders \/ BuildTreeLine \/ DecodeEmit

SpecJsx == InitJsx /\ [][NextJsx]_vars

\* the tree a JSX node stands for: an element's inline child is its first child
RECURSIVE TreeOf(_)
TreeOfProp(attr) ==
  IF attr.type = "JSXSpreadAttribute" THEN [type |-> "spread", value |-> attr.argument.src]
  ELSE IF attr.value.type = "null" THEN [type |-> "boolean", name |-> PropName(attr)]
  ELSE IF attr.value.type = "StringLiteral"
       THEN [type |-> "string", name |-> PropName(attr), value |-> attr.value.value]
  ELSE [type |-> "expression", name |-> PropName(attr), value |-> attr.value.expression.src]

TreeOfSelector(attr) ==
  IF attr.value.type = "StringLiteral" THEN [type |-> "string", value |-> attr.value.value]
  ELSE [type |-> "expression", value |-> attr.value.expression.src]

TreeOfClasses(attrs) ==
  IF attrs = <<>> THEN <<>>
  ELSE IF attrs[Len(attrs)].value.type = "StringLiteral"
       THEN [k \in 1..Len(SplitWhitespace(attrs[Len(attrs)].value.value)) |->
               [type |-> "string", value |-> SplitWhitespace(attrs[Len(attrs)].value.value)[k]]]
  ELSE <<TreeOfSelector(attrs[Len(attrs)])>>

TreeOfElement(opening, kids) ==
  [type |-> "element",
   tag |-> getRawTagName(opening.name),
   id |-> IF Named(opening.attributes, "id") = <<>> THEN Null
          ELSE TreeOfSelector(Named(opening.attributes, "id")[Len(Named(opening.attributes, "id"))]),
   classes |-> TreeOfClasses(Named(opening.attributes, "className")),
   props |-> [k \in 1..Len(SelectSeq(opening.attributes,
                 LAMBDA a : a.type = "JSXSpreadAttribute" \/ PropName(a) \notin {"className", "id"})) |->
                TreeOfProp(SelectSeq(opening.attributes,
                 LAMBDA a : a.type = "JSXSpreadAttribute" \/ PropName(a) \notin {"className", "id"})[k])],
   children |-> kids]

TreeOfExpression(expr) ==
  IF IsAndJSX(expr)
  THEN [type |-> "conditional", condition |-> expr.left.src, child |-> TreeOf(unwrapParens(expr.right))]
  ELSE IF IsTernaryJSX(expr) /\ isJSXNode(expr.consequent) /\ isJSXNode(expr.alternate)
       THEN [type |-> "ternary", condition |-> expr.test.src,
             consequent |-> TreeOf(unwrapParens(expr.consequent)),
             alternate |-> TreeOf(unwrapParens(expr.alternate))]
  ELSE IF isMapExpression(expr) /\ getMapCallbackJSX(expr.arguments[1]).type # "null"
       THEN [type |-> "map", collection |-> expr.callee.object.src,
             child |-> TreeOf(getMapCallbackJSX(expr.arguments[1]))]
  ELSE [type |-> "expression", value |-> expr.src]

TreeOf(node) ==
  CASE node.type = "JSXFragment" ->
         [type |-> "fragment",
          children |-> [k \in 1..Len(getSignificantChildren(node.children)) |->
                          TreeOf(getSignificantChildren(node.children)[k])]]
    [] node.type = "JSXElement" ->
         TreeOfElement(node.openingElement,
                       [k \in 1..Len(getSignificantChildren(node.children)) |->
                          TreeOf(getSignificantChildren(node.children)[k])])
    [] node.type = "JSXText" -> [type |-> "text", value |-> Trim(node.value)]
    [] OTHER -> TreeOfExpression(node.expression)

\* the decoded tree under a node of buildTree, in the same form; the lines
\* attached to a marker line itself are kept apart as detached
RECURSIVE DecodedTree(_, _)
DecodedKids(ns, node) == [k \in 1..Len(Kids(node)) |-> DecodedTree(ns, ns[Kids(node)[k]])]

DecodedTree(ns, node) ==
  CASE node.type = "fragment" -> [type |-> "fragment", children |-> DecodedKids(ns, node)]
    [] node.type = "element" ->
         [type |-> "element", tag |-> node.tag, id |-> node.id, classes |-> node.classes,
          props |-> node.props,
          children |-> (IF node.inlineChild.type = "null" THEN <<>> ELSE <<node.inlineChild>>)
                       \o DecodedKids(ns, node)]
    [] node.type = "conditional" /\ Kids(node) = <<>> ->
         [type |-> "conditional", condition |-> node.condition, child |-> DecodedTree(ns, node.child)]
    [] node.type = "ternary" /\ Kids(node) = <<>> ->
         [type |-> "ternary", condition |-> node.condition,
          consequent |-> DecodedTree(ns, node.consequent),
          alternate |-> DecodedTree(ns, node.alternate)]
    [] node.type = "map" /\ Kids(node) = <<>> ->
         [type |-> "map", collection |-> node.collection, child |-> DecodedTree(ns, node.child)]
    [] node.type \in {"text", "expression"} /\ Kids(node) = <<>> ->
         [type |-> node.type, value |-> node.value]
    [] OTHER -> [type |-> "detached", of |-> node.type, children |-> DecodedKids(ns, node)]

\* C1: the notation written for a JSX tree with the aliases of that tree
\* decodes without error to one root that is the same tree: same node kinds,
\* same tag, id, classes and props on every element, same nesting.
C1_RoundTrip ==
  pc = "done" =>
    /\ ~raised
    /\ Len(roots) = 1
    /\ DecodedTree(nodes, nodes[roots[1]]) = TreeOf(ast)

\* the first line of the body of the notation
FirstBodyLine ==
  Split(IF formatHeaders(aliases) # "" THEN SliceFrom(jsxn, Len(formatHeaders(aliases)) + 2) ELSE jsxn, "\n")[1]

\* C10: a div root with a className or an id is written without its tag name,
\* its line starting with the selector; a div root with neither keeps the tag.
C10_ImplicitDiv ==
  (pc \in {"decode", "buildTree", "done"} /\ ast.type = "JSXElement"
     /\ getRawTagName(ast.openingElement.name) = "div") =>
    IF Named(ast.openingElement.attributes, "id") # <<>>
       \/ Named(ast.openingElement.attributes, "className") # <<>>
    THEN CharAt(FirstBodyLine, 0) \in {"#", "."}
    ELSE StartsWith(FirstBodyLine, "div")

\* the lines of the body of the notation
NotationBody ==
  Split(IF formatHeaders(aliases) # "" THEN SliceFrom(jsxn, Len(formatHeaders(aliases)) + 2) ELSE jsxn, "\n")

LeadingSpaces(line) == Len(line) - Len(TrimStart(line))

\* the JSX children of a pattern expression: the right operand, both branches, the callback's JSX
PatternChildren(expr) ==
  IF IsAndJSX(expr) THEN <<unwrapParens(expr.right)>>
  ELSE IF IsTernaryJSX(expr) /\ isJSXNode(expr.consequent) /\ isJSXNode(expr.alternate)
       THEN <<unwrapParens(expr.consequent), unwrapParens(expr.alternate)>>
  ELSE IF isMapExpression(expr) /\ getMapCallbackJSX(expr.arguments[1]).type # "null"
       THEN <<getMapCallbackJSX(expr.arguments[1])>>
  ELSE <<>>

\* the pattern expressions among the children of the root
RootPatterns ==
  {ast.children[k].expression :
     k \in {n \in 1..Len(ast.children) :
              ast.children[n].type = "JSXExpressionContainer"
              /\ PatternChildren(ast.children[n].expression) # <<>>}}

\* the notation of child is complete at the marker line q: its first line on
\* the marker line, every further line on a later, deeper line
CompleteAt(q, childLines) ==
  /\ Includes(NotationBody[q], Trim(childLines[1]))
  /\ \A k \in 2..Len(childLines) :
       \E r \in (q + 1)..Len(NotationBody) :
         /\ TrimStart(NotationBody[r]) = TrimStart(childLines[k])
         /\ LeadingSpaces(NotationBody[r]) > LeadingSpaces(NotationBody[q])

\* C14: for a conditional, ternary or map under the root, every line of the
\* notation of its child (of both branches for a ternary) is in the output:
\* the first on the marker line, the others after it and deeper.
C14_PatternChildComplete ==
  pc \in {"decode", "buildTree", "done"} =>
    \A expr \in RootPatterns :
      \E q \in 1..Len(NotationBody) :
        /\ CharAt(TrimStart(NotationBody[q]), 0) \in {"?", "*"}
        /\ \A c \in 1..Len(PatternChildren(expr)) :
             CompleteAt(q, emitNode(PatternChildren(expr)[c], 0, aliases))

\* the parse of the first line of a child's notation, as the decoder makes it
ParsedHead(child) == EnsureChildren(classifyAndParse(Trim(emitNode(child, 0, aliases)[1]), Ctx))

WithoutChildren(node) == [node EXCEPT !.children = <<>>]

\* the decoded node stands for the pattern expression: its condition or
\* collection is the source text, its child the parse of the child's first line
DecodedAs(node, expr) ==
  IF IsAndJSX(expr)
  THEN /\ node.type = "conditional" /\ node.condition = expr.left.src
       /\ WithoutChildren(node.child) = ParsedHead(PatternChildren(expr)[1])
  ELSE IF isMapExpression(expr)
  THEN /\ node.type = "map" /\ node.collection = expr.callee.object.src
       /\ WithoutChildren(node.child) = ParsedHead(PatternChildren(expr)[1])
  ELSE /\ node.type = "ternary" /\ node.condition = expr.test.src
       /\ node.consequent = ParsedHead(PatternChildren(expr)[1])
       /\ node.alternate = ParsedHead(PatternChildren(expr)[2])

\* C16: every conditional, ternary or map the writer emitted under the root
\* is decoded to a node whose condition or collection is the source text the
\* writer wrote before " > " and whose child is the parse of what it wrote after.
C16_ConditionVerbatim ==
  pc = "done" =>
    \A expr \in RootPatterns : \E id \in 1..Len(nodes) : DecodedAs(nodes[id], expr)

\* the string-valued id and className attributes of an opening element
StringSelectors(opening) ==
  SelectSeq(opening.attributes,
            LAMBDA a : a.type = "JSXAttribute" /\ PropName(a) \in {"id", "className"}
                       /\ a.value.type = "StringLiteral")

\* C17: an element written with an id and/or class tokens is decoded to an
\* element with the same tag, the same id and the same class tokens in order.
C17_SelectorsExact ==
  (pc = "done" /\ ast.type = "JSXElement" /\ StringSelectors(ast.openingElement) # <<>>) =>
    /\ roots # <<>>
    /\ nodes[roots[1]].type = "element"
    /\ nodes[roots[1]].tag = TreeOfElement(ast.openingElement, <<>>).tag
    /\ nodes[roots[1]].id = TreeOfElement(ast.openingElement, <<>>).id
    /\ nodes[roots[1]].classes = TreeOfElement(ast.openingElement, <<>>).classes

\* a text, or an expression that is no conditional, ternary or map of JSX and no JSX
InlineKind(child) ==
  \/ child.type = "JSXText"
  \/ /\ child.type = "JSXExpressionContainer"
     /\ ~IsAndJSX(child.expression) /\ ~IsTernaryJSX(child.expression)
     /\ ~isMapExpression(child.expression) /\ ~isJSXNode(child.expression)

\* a text or a string literal in quotes, any other expression in parentheses
InlineText(child) ==
  IF child.type = "JSXText" THEN "\"" \o Trim(child.value) \o "\""
  ELSE IF child.expression.type = "StringLiteral" THEN "\"" \o child.expression.value \o "\""
  ELSE "(" \o child.expression.src \o ")"

\* the lines of a block, after the first, that are exactly one unit deeper than level
ChildHeads(block, level) ==
  SelectSeq([k \in 1..Len(block) |-> k], LAMBDA k : k > 1 /\ LeadingSpaces(block[k]) = level + 1)

\* the lines of the j-th child: from its head to the line before the next head
ChildBlock(block, heads, j) ==
  SubSeq(block, heads[j], IF j < Len(heads) THEN heads[j + 1] - 1 ELSE Len(block))

\* block is the layout of the element at the level: the tag line alone, the
\* tag line with the one inline child, or the tag line and one block per child
RECURSIVE LayoutOf(_, _, _)
LayoutOf(elem, block, level) ==
  LET sig == getSignificantChildren(elem.children)
      line == indent(level) \o TagLine(elem.openingElement, aliases)
      heads == ChildHeads(block, level)
  IN IF sig = <<>> THEN block = <<line>>
     ELSE IF Len(sig) = 1 /\ InlineKind(sig[1]) THEN block = <<line \o " " \o InlineText(sig[1])>>
     ELSE /\ block[1] = line
          /\ \A k \in 2..Len(block) : LeadingSpaces(block[k]) >= level + 1
          /\ Len(heads) = Len(sig)
          /\ \A j \in 1..Len(sig) :
               IF Len(heads) # Len(sig) THEN FALSE
               ELSE IF sig[j].type = "JSXElement"
                    THEN LayoutOf(sig[j], ChildBlock(block, heads, j), level + 1)
               ELSE IF sig[j].type = "JSXText"
                    THEN ChildBlock(block, heads, j) = <<indent(level + 1) \o InlineText(sig[j])>>
               ELSE ChildBlock(block, heads, j) = emitNode(sig[j], level + 1, aliases)

\* C22: an element without significant children is its tag line alone; with
\* one significant child that is a text or a plain expression the child
\* follows the tag on the same line after one space; otherwise the tag line
\* is followed by the children in order, each starting on a line of its own
\* exactly one unit deeper.
C22_ChildLayout ==
  (pc \in {"decode", "buildTree", "done"} /\ ast.type = "JSXElement") =>
    LayoutOf(ast, NotationBody, 0)

----------------------------------------------------------------------------
(* file-encoder.js and file-decoder.js: import declarations *)

\* the loop of compressImport that fills parts; a specifier of no branch adds nothing
RECURSIVE ImportParts(_)
ImportParts(specifiers) ==
  IF specifiers = <<>> THEN <<>>
  ELSE LET spec == Head(specifiers)
       IN (IF spec.type = "ImportDefaultSpecifier" THEN <<"default " \o spec.local.name>>
           ELSE IF spec.type = "ImportNamespaceSpecifier" THEN <<"* as " \o spec.local.name>>
           ELSE IF spec.type = "ImportSpecifier"
                THEN (IF spec.importKind = "type" THEN <<"type " \o spec.local.name>>
                      ELSE IF spec.imported.name # spec.local.name
                      THEN <<spec.imported.name \o " as " \o spec.local.name>>
                      ELSE <<spec.local.name>>)
           ELSE <<>>)
          \o ImportParts(Tail(specifiers))

\* the loop of compressTypeImport that fills parts
RECURSIVE TypeImportParts(_)
TypeImportParts(specifiers) ==
  IF specifiers = <<>> THEN <<>>
  ELSE LET spec == Head(specifiers)
       IN (IF spec.type = "ImportDefaultSpecifier" THEN <<"default " \o spec.local.name>>
           ELSE IF spec.type = "ImportSpecifier"
                THEN (IF spec.imported.name # spec.local.name
                      THEN <<spec.imported.name \o " as " \o spec.local.name>>
                      ELSE <<spec.local.name>>)
           ELSE <<>>)
          \o TypeImportParts(Tail(specifiers))

compressImport(node) ==
  IF Len(node.specifiers) = 0 THEN "@I \"" \o node.source.value \o "\""
  ELSE "@I " \o node.source.value \o ": " \o Join(ImportParts(node.specifiers), ", ")

compressTypeImport(node) ==
  IF Len(node.specifiers) = 0 THEN "@T \"" \o node.source.value \o "\""
  ELSE "@T " \o node.source.value \o ": " \o Join(TypeImportParts(node.specifiers), ", ")

\* encodeFile of a file that is one import declaration
encodeFile(stmt) == IF stmt.importKind = "type" THEN compressTypeImport(stmt) ELSE compressImport(stmt)

\* specStr.split(',').map(s => s.trim()).filter(Boolean)
ImportSpecs(specStr) ==
  SelectSeq([k \in 1..Len(Split(specStr, ",")) |-> Trim(Split(specStr, ",")[k])], LAMBDA s : s # "")

\* the last default name of the loop, "" for null
DefaultName(specs) ==
  IF SelectSeq(specs, LAMBDA s : StartsWith(s, "default ")) = <<>> THEN ""
  ELSE SliceFrom(SelectSeq(specs, LAMBDA s : StartsWith(s, "default "))
                   [Len(SelectSeq(specs, LAMBDA s : StartsWith(s, "default ")))], 8)

\* the statement decodeImport builds from its module and specifiers
ImportStatement(module, defaultName, namespaces, parts) ==
  IF namespaces # <<>>
  THEN (IF defaultName # ""
        THEN "import " \o defaultName \o ", " \o namespaces[Len(namespaces)] \o " from \"" \o module \o "\""
        ELSE "import " \o namespaces[Len(namespaces)] \o " from \"" \o module \o "\"")
  ELSE IF defaultName # "" /\ Len(parts) > 0
       THEN "import " \o defaultName \o ", { " \o Join(parts, ", ") \o " } from \"" \o module \o "\""
  ELSE IF defaultName # "" THEN "import " \o defaultName \o " from \"" \o module \o "\""
  ELSE IF Len(parts) > 0 THEN "import { " \o Join(parts, ", ") \o " } from \"" \o module \o "\""
  ELSE "import \"" \o module \o "\""

\* the statement for a module and its specifiers, split as the loop of decodeImport does
DecodeSpecs(module, specs) ==
  ImportStatement(module, DefaultName(specs),
    SelectSeq(specs, LAMBDA s : ~StartsWith(s, "default ") /\ StartsWith(s, "* as ")),
    SelectSeq(specs, LAMBDA s : ~StartsWith(s, "default ") /\ ~StartsWith(s, "* as ")))

decodeImport(line) ==
  LET content == SliceFrom(line, 3)
  IN IF StartsWith(content, "\"") THEN "import " \o content
     ELSE IF IndexOf(content, ":") = -1 THEN "import " \o content
     ELSE DecodeSpecs(Trim(Slice(content, 0, IndexOf(content, ":"))),
                      ImportSpecs(Trim(SliceFrom(content, IndexOf(content, ":") + 1))))

\* the statement decodeTypeImport builds
TypeImportStatement(module, defaultName, parts) ==
  IF defaultName # "" /\ Len(parts) > 0
  THEN "import type " \o defaultName \o ", { " \o Join(parts, ", ") \o " } from \"" \o module \o "\""
  ELSE IF defaultName # "" THEN "import type " \o defaultName \o " from \"" \o module \o "\""
  ELSE "import type { " \o Join(parts, ", ") \o " } from \"" \o module \o "\""

\* the statement for a module and its specifiers, split as the loop of decodeTypeImport does
DecodeTypeSpecs(module, specs) ==
  TypeImportStatement(module, DefaultName(specs), SelectSeq(specs, LAMBDA s : ~StartsWith(s, "default ")))

decodeTypeImport(line) ==
  LET content == SliceFrom(line, 3)
  IN IF StartsWith(content, "\"") THEN "import type " \o content
     ELSE IF IndexOf(content, ":") = -1 THEN "import type " \o content
     ELSE DecodeTypeSpecs(Trim(Slice(content, 0, IndexOf(content, ":"))),
                          ImportSpecs(Trim(SliceFrom(content, IndexOf(content, ":") + 1))))

\* the loop body of decodeFile for the lines an import declaration gives:
\* blank, directive, @I, @T; any other line of these is passed through
DecodeFileLine(line) ==
  IF Trim(line) = "" THEN ""
  ELSE IF StartsWith(Trim(line), "\"use ") THEN Trim(line)
  ELSE IF StartsWith(Trim(line), "@I ") THEN decodeImport(Trim(line))
  ELSE IF StartsWith(Trim(line), "@T ") THEN decodeTypeImport(Trim(line))
  ELSE line

decodeFile(text) ==
  IF Trim(text) = "" THEN ""
  ELSE Join([k \in 1..Len(Split(text, "\n")) |-> DecodeFileLine(Split(text, "\n")[k])], "\n")

\* encodeFile(code)
EncodeFile ==
  /\ pc = "file"
  /\ jsxn' = encodeFile(importDecl)
  /\ pc' = "decodeFile"
  /\ UNCHANGED <<inputVars, tool, htmlVars, aliasVars, format, headerVars, treeVars, output, raised>>

\* decodeFile(jsxn)
DecodeFile ==
  /\ pc = "decodeFile"
  /\ output' = decodeFile(jsxn)
  /\ pc' = "done"
  /\ UNCHANGED <<inputVars, tool, htmlVars, aliasVars, jsxn, format, headerVars, treeVars, raised>>

----------------------------------------------------------------------------
(* A file of one import declaration, encoded and decoded: SpecFile *)

MaxSpecifiers == 2

ModulePool == {"react", "./styles.css", "@/lib/utils", "node:fs"}

Local(n) == [name |-> n]
DefaultSpecifier == [type |-> "ImportDefaultSpecifier", local |-> Local("React")]
NamespaceSpecifier == [type |-> "ImportNamespaceSpecifier", local |-> Local("Utils")]
ImportSpecifier(imported, local, kind) ==
  [type |-> "ImportSpecifier", importKind |-> kind, imported |-> Local(imported), local |-> Local(local)]

NamedPool ==
  {ImportSpecifier("useState", "useState", "value"), ImportSpecifier("useRef", "ref", "value"), ImportSpecifier("Product", "Product", "type")}

NamedLists(pool) == UNION {[1..n -> pool] : n \in 1..MaxSpecifiers}

\* import "m", import D, import * as N, import D, * as N, import { ... }, import D, { ... }
ValueClauses ==
  {<<>>, <<DefaultSpecifier>>, <<NamespaceSpecifier>>, <<DefaultSpecifier, NamespaceSpecifier>>}
  \cup NamedLists(NamedPool)
  \cup {<<DefaultSpecifier>> \o l : l \in NamedLists(NamedPool)}

\* import type D, import type * as N, import type { ... }
TypeClauses ==
  {<<DefaultSpecifier>>, <<NamespaceSpecifier>>}
  \cup NamedLists({s \in NamedPool : s.importKind = "value"})

ImportDeclarations ==
  {[type |-> "ImportDeclaration", importKind |-> "value", source |-> [value |-> m], specifiers |-> c] :
     m \in ModulePool, c \in ValueClauses}
  \cup {[type |-> "ImportDeclaration", importKind |-> "type", source |-> [value |-> m], specifiers |-> c] :
          m \in ModulePool, c \in TypeClauses}

InitFile ==
  /\ pc = "file"
  /\ importDecl \in ImportDeclarations
  /\ NoHtml /\ NoJsx
  /\ NoAliases
  /\ jsxn = ""
  /\ format = "jsx"
  /\ NoHeaders /\ NoRequest
  /\ NoTree
  /\ output = ""
  /\ raised = FALSE

NextFile == EncodeFile \/ DecodeFile

SpecFile == InitFile /\ [][NextFile]_vars

\* a binding as it is written in an import clause
BindingText(spec) ==
  CASE spec.type = "ImportDefaultSpecifier" -> spec.local.name
    [] spec.type = "ImportNamespaceSpecifier" -> "* as " \o spec.local.name
    [] OTHER -> (IF spec.importKind = "type" THEN "type " ELSE "")
                \o (IF spec.imported.name # spec.local.name
                    THEN spec.imported.name \o " as " \o spec.local.name
                    ELSE spec.local.name)

\* the import clause of a declaration: the default and namespace bindings, then the named ones in braces
ClauseText(specifiers) ==
  LET outer == SelectSeq(specifiers, LAMBDA s : s.type # "ImportSpecifier")
      named == SelectSeq(specifiers, LAMBDA s : s.type = "ImportSpecifier")
  IN Join([k \in 1..Len(outer) |-> BindingText(outer[k])]
          \o (IF named = <<>> THEN <<>>
              ELSE <<"{ " \o Join([k \in 1..Len(named) |-> BindingText(named[k])], ", ") \o " }">>), ", ")

\* the declaration as source text
DeclarationText(decl) ==
  "import " \o (IF decl.importKind = "type" THEN "type " ELSE "")
  \o (IF decl.specifiers = <<>> THEN "" ELSE ClauseText(decl.specifiers) \o " from ")
  \o "\"" \o decl.source.value \o "\""

\* C9: the decoded file of an import declaration's @I or @T line is that
\* declaration: the same module specifier and the same imported bindings.
C9_ImportRoundTrip == pc = "done" => output = DeclarationText(importDecl)

----------------------------------------------------------------------------
(* mcp/index.js: the read_jsxn tool.  The handler runs from one await to   *)
(* the next; request holds what realpath, stat, readFile and the encoder   *)
(* answer: [code, value], code "" when the call succeeds.                  *)

MAX_FILE_SIZE == 10 * 1024 * 1024
ALLOWED_EXTENSIONS == {".jsx", ".tsx", ".js", ".ts", ".html", ".svg"}

\* the index of the last occurrence of p in s, -1 when there is none
RECURSIVE LastIndexOf(_, _, _)
LastIndexOf(s, p, k) ==
  IF k < 0 THEN -1 ELSE IF StartsWithAt(s, p, k) THEN k ELSE LastIndexOf(s, p, k - 1)

\* path.extname(p).toLowerCase(): from the last dot of the last segment, ""
\* when it has none or starts with its only dot
LowerExtname(p) ==
  LET base == SliceFrom(p, LastIndexOf(p, "/", Len(p) - 1) + 1)
  IN IF LastIndexOf(base, ".", Len(base) - 1) <= 0 THEN ""
     ELSE ToLowerCase(SliceFrom(base, LastIndexOf(base, ".", Len(base) - 1)))

ErrorResult(text) == [isError |-> TRUE, text |-> text]

\* the catch clause
CatchResult(code) ==
  ErrorResult(IF code = "ENOENT" THEN "File not found"
              ELSE IF code = "EACCES" THEN "Permission denied"
              ELSE "Unable to read file")

\* the handler up to await realpath(absPath)
CheckExtension ==
  /\ pc = "request"
  /\ IF LowerExtname(request.path) \notin ALLOWED_EXTENSIONS
     THEN /\ tool' = [tool EXCEPT !.result =
                        ErrorResult("Only .jsx, .tsx, .js, .ts, .html, and .svg files are supported")]
          /\ pc' = "returned"
     ELSE /\ tool' = [tool EXCEPT !.checks = Append(@, "extension")]
          /\ pc' = "realpath"
  /\ UNCHANGED <<inputVars, htmlVars, aliasVars, jsxn, format, headerVars, treeVars, output, raised>>

\* from the answer of realpath to await stat(realFile)
CheckRealpath ==
  /\ pc = "realpath"
  /\ IF request.realpath.code # ""
     THEN /\ tool' = [tool EXCEPT !.result = CatchResult(request.realpath.code)]
          /\ pc' = "returned"
     ELSE IF LowerExtname(request.realpath.value) # LowerExtname(request.path)
     THEN /\ tool' = [tool EXCEPT !.result = ErrorResult("Symlink target must have the same extension")]
          /\ pc' = "returned"
     ELSE /\ tool' = [tool EXCEPT !.checks = Append(@, "realpath")]
          /\ pc' = "stat"
  /\ UNCHANGED <<inputVars, htmlVars, aliasVars, jsxn, format, headerVars, treeVars, output, raised>>

\* the same step without the size test
CheckSizeSkipped ==
  /\ pc = "stat"
  /\ IF request.stat.code # ""
     THEN /\ tool' = [tool EXCEPT !.result = CatchResult(request.stat.code)]
          /\ pc' = "returned"
     ELSE /\ tool' = [tool EXCEPT !.checks = Append(@, "size")]
          /\ pc' = "readFile"
  /\ UNCHANGED <<inputVars, htmlVars, aliasVars, jsxn, format, headerVars, treeVars, output, raised>>
\* from the answer of stat to await readFile(realFile, 'utf-8')
CheckSize ==
  /\ pc = "stat"
  /\ IF request.stat.code # ""
     THEN /\ tool' = [tool EXCEPT !.result = CatchResult(request.stat.code)]
          /\ pc' = "returned"
     ELSE IF request.stat.value > MAX_FILE_SIZE
     THEN /\ tool' = [tool EXCEPT !.result = ErrorResult("File too large (max 10 MB)")]
          /\ pc' = "returned"
     ELSE /\ tool' = [tool EXCEPT !.checks = Append(@, "size")]
          /\ pc' = "readFile"
  /\ UNCHANGED <<inputVars, htmlVars, aliasVars, jsxn, format, headerVars, treeVars, output, raised>>

\* from the answer of readFile to the return: the encoder is encodeHTML for
\* .html and .svg and encodeFile otherwise, and either may throw
ReadAndEncode ==
  /\ pc = "readFile"
  /\ IF request.readFile.code # ""
     THEN tool' = [tool EXCEPT !.result = CatchResult(request.readFile.code)]
     ELSE IF request.encoder.code # ""
     THEN tool' = [tool EXCEPT !.read = TRUE, !.result = CatchResult("")]
     ELSE tool' = [tool EXCEPT !.read = TRUE, !.encoded = TRUE,
                               !.result = [isError |-> FALSE,
                                           text |-> "// JSXN: " \o request.path \o "\n" \o request.encoder.value]]
  /\ pc' = "returned"
  /\ UNCHANGED <<inputVars, htmlVars, aliasVars, jsxn, format, headerVars, treeVars, output, raised>>

----------------------------------------------------------------------------
(* One read_jsxn request against a file system: SpecMcp *)

Answer(value) == [code |-> "", value |-> value]
Failure(code) == [code |-> code, value |-> ""]

PathPool ==
  {"App.jsx", "App.TSX", "src/util.ts", "index.html", "logo.svg", "notes.txt", ".js", "dir.js/Makefile"}

\* the path itself, symlink targets, and the errors of realpath
RealpathPool(path) ==
  {Answer(path), Answer("secret.txt"), Answer("Target.JSX"), Answer("real/util.ts"),
   Failure("ENOENT"), Failure("EACCES"), Failure("ELOOP")}

StatPool ==
  {[code |-> "", value |-> 0], [code |-> "", value |-> MAX_FILE_SIZE],
   [code |-> "", value |-> MAX_FILE_SIZE + 1], [code |-> "EACCES", value |-> 0]}

ReadFilePool == {Answer("<content>"), Failure("EISDIR"), Failure("ENOENT")}

EncoderPool == {Answer("<notation>"), Failure("SyntaxError")}

Requests ==
  {[type |-> "request", path |-> p, realpath |-> r, stat |-> st, readFile |-> rd, encoder |-> e] :
     p \in PathPool, r \in UNION {RealpathPool(q) : q \in PathPool}, st \in StatPool,
     rd \in ReadFilePool, e \in EncoderPool}

InitMcp ==
  /\ pc = "request"
  /\ request \in Requests
  /\ tool = [checks |-> <<>>, read |-> FALSE, encoded |-> FALSE, result |-> [type |-> "null"]]
  /\ html = "" /\ htmlPos = 0 /\ doctype = ""
  /\ htmlNodes = <<>> /\ htmlRoots = <<>> /\ htmlStack = <<>>
  /\ NoJsx /\ NoImport
  /\ NoAliases
  /\ jsxn = ""
  /\ format = "jsx"
  /\ reverseComp = <<>> /\ reverseProp = <<>> /\ reverseClass = <<>>
  /\ bodyLines = <<>> /\ hasDoctype = FALSE
  /\ NoTree
  /\ output = ""
  /\ raised = FALSE

NextMcp == CheckExtension \/ CheckRealpath \/ CheckSize \/ ReadAndEncode

SpecMcp == InitMcp /\ [][NextMcp]_vars

FixedMessages ==
  {"Only .jsx, .tsx, .js, .ts, .html, and .svg files are supported",
   "Symlink target must have the same extension", "File too large (max 10 MB)",
   "File not found", "Permission denied", "Unable to read file"}

\* the gates in their order, and the file read only behind all three
GatesInOrder ==
  /\ tool.checks \in {<<>>, <<"extension">>, <<"extension", "realpath">>, <<"extension", "realpath", "size">>}
  /\ Len(tool.checks) >= 1 => LowerExtname(request.path) \in ALLOWED_EXTENSIONS
  /\ Len(tool.checks) >= 2 =>
       request.realpath.code = "" /\ LowerExtname(request.realpath.value) = LowerExtname(request.path)
  /\ Len(tool.checks) >= 3 => request.stat.code = "" /\ request.stat.value <= MAX_FILE_SIZE
  /\ (tool.read \/ tool.encoded) => Len(tool.checks) = 3

\* a check failed or a call raised
SomethingFailed ==
  \/ LowerExtname(request.path) \notin ALLOWED_EXTENSIONS
  \/ request.realpath.code # ""
  \/ LowerExtname(request.realpath.value) # LowerExtname(request.path)
  \/ request.stat.code # ""
  \/ request.stat.value > MAX_FILE_SIZE
  \/ request.readFile.code # ""
  \/ request.encoder.code # ""

\* C13 as stated: the file is read only behind the three gates in their
\* order, and whenever a check fails or a step raises the result is an error
\* with a fixed message and the file has been neither read nor encoded.
C13_NoReadOnAnyFailure ==
  /\ GatesInOrder
  /\ (pc = "returned" /\ SomethingFailed) =>
       /\ tool.result.isError /\ tool.result.text \in FixedMessages
       /\ ~tool.read /\ ~tool.encoded

\* C13: the file is read only behind the three gates in their order; whenever
\* a check fails or a step raises the result is an error with a fixed message
\* and the file has not been encoded; it has not been read either, unless the
\* step that raised is the encoder, which runs on the content already read.
C13_GatedRead ==
  /\ GatesInOrder
  /\ (pc = "returned" /\ SomethingFailed) =>
       /\ tool.result.isError /\ tool.result.text \in FixedMessages
       /\ ~tool.encoded
       /\ tool.read =>
            /\ tool.checks = <<"extension", "realpath", "size">>
            /\ request.readFile.code = "" /\ request.encoder.code # ""
  /\ (pc = "returned" /\ ~SomethingFailed) => ~tool.result.isError /\ tool.read /\ tool.encoded

\* a symlink whose target has another extension is refused before stat and readFile
C13_Witness ==
  /\ pc = "returned"
  /\ request.path = "App.jsx" /\ request.realpath = [code |-> "", value |-> "secret.txt"]
  /\ request.readFile.code = "" /\ request.encoder.code = ""
  /\ tool = [checks |-> <<"extension">>, read |-> FALSE, encoded |-> FALSE,
             result |-> [isError |-> TRUE, text |-> "Symlink target must have the same extension"]]

----------------------------------------------------------------------------
(* index.js: encode of a parsed file.  hasJSX walks the program before     *)
(* anything is emitted; emit hands every JSX root collectJSX finds to      *)
(* emitNode at level 0: SpecDepth                                          *)

\* MAX_DEPTH of hasJSX.  It is 200 in index.js; the model scales it to a depth
\* that its nested programs go beyond.
MAX_DEPTH == 3

RECURSIVE hasJSXWalk(_, _)
\* walk(node, depth) of hasJSX, TRUE when it sets found.  The keys that hold
\* nodes are body of a Program or an arrow function and expression of an
\* expression statement or a parenthesized expression.
hasJSXWalk(node, depth) ==
  IF depth > MAX_DEPTH THEN FALSE
  ELSE CASE node.type \in {"JSXElement", "JSXFragment"} -> TRUE
         [] node.type = "Program" ->
              \E k \in 1..Len(node.body) : hasJSXWalk(node.body[k], depth + 1)
         [] node.type \in {"ExpressionStatement", "ParenthesizedExpression"} ->
              hasJSXWalk(node.expression, depth + 1)
         [] node.type = "ArrowFunctionExpression" -> hasJSXWalk(node.body, depth + 1)
         [] OTHER -> FALSE

hasJSX(a) == hasJSXWalk(a.program, 0)

RECURSIVE collectJSX(_)
\* the JSX nodes collectJSX hands to its callback, in order
collectJSX(node) ==
  CASE node.type \in {"JSXElement", "JSXFragment"} -> <<node>>
    [] node.type \in {"ExpressionStatement", "ParenthesizedExpression"} -> collectJSX(node.expression)
    [] node.type = "ArrowFunctionExpression" -> collectJSX(node.body)
    [] OTHER -> <<>>

\* encode(code) from the parsed file on, for a program of one statement
encode(a) ==
  IF ~hasJSX(a) THEN a.code
  ELSE LET found == collectJSX(a.program.body[1])
           al == generateAliases(analyze(found[1]))
           headers == formatHeaders(al)
           body == Join(EmitNodes(found, 0, al), "\n")
       IN IF headers # "" THEN headers \o "\n\n" \o body ELSE body

Encode ==
  /\ pc = "source"
  /\ jsxn' = encode(ast)
  /\ pc' = "encoded"
  /\ UNCHANGED <<inputVars, tool, htmlVars, aliasVars, format, headerVars, treeVars, output, raised>>

\* a node with its source text
Sourced(node, src) == [node |-> node, src |-> src]

DepthLeaves ==
  {Sourced(PlainDiv, "<div />"),
   Sourced(ListItem, "<li className=\"items-center\" />"),
   Sourced(JSXElement(JSXIdentifier("Card"), <<>>, <<>>), "<Card />")}

RECURSIVE Nested(_, _)
\* s inside n div elements
Nested(n, s) ==
  IF n = 0 THEN s
  ELSE Nested(n - 1, Sourced(JSXElement(JSXIdentifier("div"), <<>>, <<s.node>>),
                             "<div>" \o s.src \o "</div>"))

RECURSIVE Wrapped(_, _, _)
\* s inside k pairs of parentheses or k arrow functions
Wrapped(k, kind, s) ==
  IF k = 0 THEN s
  ELSE Wrapped(k - 1, kind,
               IF kind = "paren"
               THEN Sourced([type |-> "ParenthesizedExpression", expression |-> s.node], "(" \o s.src \o ")")
               ELSE Sourced(Arrow(s.node), "() => " \o s.src))

\* the parsed file of one expression statement
File(s) ==
  [type |-> "File", code |-> s.src,
   program |-> [type |-> "Program", body |-> <<[type |-> "ExpressionStatement", expression |-> s.node]>>]]

\* JSX up to two levels deeper than the cap, under wrappers that bring it
\* up to and beyond the cap of hasJSX
DeepPrograms ==
  {File(Wrapped(k, kind, Nested(n, leaf))) :
     k \in 0..MAX_DEPTH, kind \in {"paren", "arrow"}, n \in 0..(MAX_DEPTH + 2), leaf \in DepthLeaves}

InitDepth ==
  /\ pc = "source"
  /\ ast \in DeepPrograms
  /\ NoHtml /\ NoImport
  /\ NoAliases
  /\ jsxn = ""
  /\ format = "jsx"
  /\ NoHeaders /\ NoRequest
  /\ NoTree
  /\ output = ""
  /\ raised = FALSE

NextDepth == Encode

SpecDepth == InitDepth /\ [][NextDepth]_vars

\* C30: every traversal of the source AST made while encoding stops descending
\* at the depth cap and returns what it collected so far; for the emission of
\* nested elements, no line of the notation lies deeper than MAX_DEPTH levels.
C30_DepthCap ==
  pc = "encoded" =>
    \A k \in 1..Len(Split(jsxn, "\n")) : LeadingSpaces(Split(jsxn, "\n")[k]) <= MAX_DEPTH

====
